---- MODULE Spec2Model ----
(***************************************************************************)
(* Model of the ToDoList EBAC service (src/todo_list_python/main.py).      *)
(*                                                                         *)
(* The state is the content of data.json plus the last request, its        *)
(* response and a record of what the handler did to the file.  Every       *)
(* handler is one action: it authenticates, loads the whole collection,    *)
(* transforms it in memory and rewrites the whole file.  seen records the  *)
(* ids the collection has held so far; procs holds the requests that are   *)
(* served concurrently, each between its loads and its save.               *)
(*                                                                         *)
(* A string is a sequence of code points, so that strip(), len(), the       *)
(* ordering of strings and the bytes json.dump writes are computed and not *)
(* assumed: <<65, 12288>> is "A\u3000".  A file that is no complete text   *)
(* of json.dump is kept as its bytes, which json_loads decodes as json.load *)
(* does; what it gives is a tagged value (None, bool, int, float, str,     *)
(* list, dict), from which TodoItem is built field by field.               *)
(***************************************************************************)
EXTENDS Integers, Sequences, FiniteSets, TLC

VARIABLES store, req, resp, loaded, saved, seen, procs

vars == <<store, req, resp, loaded, saved, seen, procs>>

----------------------------------------------------------------------------
(* Bounds of the model.                                                    *)

MaxItems == 2
MaxId == 2

----------------------------------------------------------------------------
(* Strings.                                                                *)

\* The characters str.strip() removes: those for which str.isspace() holds.
Whitespace ==
    (9..13) \cup (28..32) \cup {133, 160, 5760} \cup (8192..8202)
        \cup {8232, 8233, 8239, 8287, 12288}

\* The code points no str of a request or of a file holds: a lone surrogate
\* is no valid string for pydantic.
Surrogates == 55296..57343

\* The characters the inputs below are written with.
Chr == [Tab |-> 9, Newline |-> 10, VerticalTab |-> 11, FormFeed |-> 12,
        Return |-> 13, Space |-> 32, A |-> 65, B |-> 66, x |-> 120, y |-> 121,
        EAcute |-> 233, IdeographicSpace |-> 12288]

Rep(c, n) == [i \in 1..n |-> c]

SetMin(S) == CHOOSE m \in S : \A k \in S : m <= k
SetMax(S) == CHOOSE m \in S : \A k \in S : m >= k

\* str.lstrip() and str.rstrip(): the string without the whitespace it begins,
\* and ends, with. n counts the characters dropped.
LStrip(s) ==
    LET n == CHOOSE k \in 0..Len(s) :
                 /\ \A j \in 1..k : s[j] \in Whitespace
                 /\ k = Len(s) \/ s[k + 1] \notin Whitespace
    IN  SubSeq(s, n + 1, Len(s))

RStrip(s) ==
    LET n == CHOOSE k \in 0..Len(s) :
                 /\ \A j \in 1..k : s[Len(s) + 1 - j] \in Whitespace
                 /\ k = Len(s) \/ s[Len(s) - k] \notin Whitespace
    IN  SubSeq(s, 1, Len(s) - n)

\* str.strip(): drops leading and trailing whitespace.
Strip(s) == RStrip(LStrip(s))

\* The first position from i on where a and b differ, 0 when the common
\* prefix reaches the end of the shorter one.
FirstDiff(a, b, i) ==
    LET last == IF Len(a) <= Len(b) THEN Len(a) ELSE Len(b)
    IN  IF \A k \in i..last : a[k] = b[k] THEN 0
        ELSE CHOOSE k \in i..last :
                 a[k] # b[k] /\ \A j \in i..(k - 1) : a[j] = b[j]

\* a < b for Python str: first differing code point, or a proper prefix.
StrLess(a, b) ==
    LET d == FirstDiff(a, b, 1)
    IN  IF d = 0 THEN Len(a) < Len(b)
        ELSE a[d] < b[d]

----------------------------------------------------------------------------
(* The values json.load gives: None, a bool, an int, a float (kept as the  *)
(* text of the number), a str, a list, and a dict: its keys with their     *)
(* values, in the order the keys first appear.                             *)

NoneValue == [type |-> "null"]
BoolValue(b) == [type |-> "bool", value |-> b]
IntValue(n) == [type |-> "int", value |-> n]
FloatValue(text) == [type |-> "float", value |-> text]
StrValue(s) == [type |-> "str", value |-> s]
ListValue(items) == [type |-> "list", value |-> items]
DictValue(members) == [type |-> "dict", value |-> members]

\* The names of the fields of TodoItem: "id", "title", "description", "done".
IdKey == <<105, 100>>
TitleKey == <<116, 105, 116, 108, 101>>
DescriptionKey == <<100, 101, 115, 99, 114, 105, 112, 116, 105, 111, 110>>
DoneKey == <<100, 111, 110, 101>>

HasMember(dict, key) == \E m \in 1..Len(dict.value) : dict.value[m][1] = key
Member(dict, key) ==
    dict.value[CHOOSE m \in 1..Len(dict.value) : dict.value[m][1] = key][2]

\* The dict of a stored record: what json.load gives for the object json.dump
\* writes for it.
DictOf(record) ==
    DictValue(
        (IF "id" \in DOMAIN record THEN << <<IdKey, IntValue(record.id)>> >> ELSE <<>>)
        \o (IF "title" \in DOMAIN record
            THEN << <<TitleKey, StrValue(record.title)>> >> ELSE <<>>)
        \o (IF "description" \in DOMAIN record
            THEN << <<DescriptionKey, StrValue(record.description)>> >> ELSE <<>>)
        \o (IF "done" \in DOMAIN record
            THEN << <<DoneKey, BoolValue(record.done)>> >> ELSE <<>>))

----------------------------------------------------------------------------
(* Item Model & Validator.                                                 *)

TitleMaxLength == 100
DescriptionMaxLength == 500

\* The outcome of a failed validation, and of a successful one.
Invalid == [ok |-> FALSE, value |-> <<>>]

\* validate_not_empty_string, a field_validator in its default "after" mode:
\* it sees a value that already passed the Field constraints.
validate_not_empty_string(v) ==
    CHOOSE out \in
        {IF Len(v) = 0 \/ stripped = <<>> THEN Invalid
         ELSE [ok |-> TRUE, value |-> stripped] : stripped \in {Strip(v)}} : TRUE

\* A str field declared Field(..., min_length=1, max_length=maxLength) with the
\* validator above: the value has to be a string of Unicode characters, the
\* length constraints are checked on the value as given (in code points), and
\* only then the validator runs and trims.
StrField(v, maxLength) ==
    IF \E i \in 1..Len(v) : v[i] \in Surrogates THEN Invalid
    ELSE IF Len(v) < 1 \/ Len(v) > maxLength THEN Invalid
    ELSE validate_not_empty_string(v)

\* TodoCreate(**body).  body.done is "true", "false", "null" or "omitted";
\* Optional[bool] with default False: omitted gives False, null stays None.
TodoCreate(body) ==
    CHOOSE out \in
        {[ok |-> t.ok /\ d.ok,
          title |-> t.value,
          description |-> d.value,
          done |-> IF body.done = "omitted" THEN "false" ELSE body.done] :
            t \in {StrField(body.title, TitleMaxLength)},
            d \in {StrField(body.description, DescriptionMaxLength)}} : TRUE

\* TodoItem(id=..., title=..., description=..., done=...) where done is
\* "true", "false" or "null" (None is no bool: a ValidationError).
TodoItem(id, title, description, done) ==
    CHOOSE out \in
        {[ok |-> id > 0 /\ t.ok /\ d.ok /\ done \in {"true", "false"},
          item |-> [id |-> id, title |-> t.value, description |-> d.value,
                    done |-> (done = "true")]] :
            t \in {StrField(title, TitleMaxLength)},
            d \in {StrField(description, DescriptionMaxLength)}} : TRUE

\* The ASCII letters of a string in lower case.
LowerAscii(s) == [i \in 1..Len(s) |-> IF s[i] \in 65..90 THEN s[i] + 32 ELSE s[i]]

IsDigit(c) == c >= 48 /\ c <= 57

\* The int the digits from position from to position to are.
RECURSIVE DecimalValue(_, _, _)
DecimalValue(b, from, to) ==
    IF from > to THEN 0
    ELSE 10 * DecimalValue(b, from, to - 1) + (b[to] - 48)

\* What pydantic, in its lax mode, makes of a value given for an int field:
\* an int is taken, a bool counts as 1 or 0, a str of digits as their number;
\* None, a list, a dict and a str without any digit are refused.  The item
\* model gives no answer for a float and for a str of digits and other
\* characters.
IntField(v) ==
    CASE v.type = "int" -> [ok |-> TRUE, value |-> v.value]
      [] v.type = "bool" -> [ok |-> TRUE, value |-> IF v.value THEN 1 ELSE 0]
      [] v.type = "str" /\ v.value # <<>>
            /\ (\A i \in 1..Len(v.value) : IsDigit(v.value[i])) ->
            [ok |-> TRUE, value |-> DecimalValue(v.value, 1, Len(v.value))]
      [] v.type = "str" /\ (\A i \in 1..Len(v.value) : ~IsDigit(v.value[i])) ->
            [ok |-> FALSE, value |-> 0]
      [] v.type \in {"null", "list", "dict"} -> [ok |-> FALSE, value |-> 0]

\* The words pydantic takes for True and False, whatever the case of their
\* letters: 1, on, t, true, y, yes and 0, off, f, false, n, no.
TrueWords ==
    {<<49>>, <<111, 110>>, <<116>>, <<116, 114, 117, 101>>, <<121>>, <<121, 101, 115>>}
FalseWords ==
    {<<48>>, <<111, 102, 102>>, <<102>>, <<102, 97, 108, 115, 101>>, <<110>>,
     <<110, 111>>}

\* What pydantic, in its lax mode, makes of a value given for a bool field: a
\* bool is taken, 1 and 0 and the words above count as True and False, every
\* other int or str, None, a list and a dict are refused.  The item model
\* gives no answer for a float.
BoolField(v) ==
    CASE v.type = "bool" -> [ok |-> TRUE, value |-> v.value]
      [] v.type = "int" -> [ok |-> v.value \in {0, 1}, value |-> v.value = 1]
      [] v.type = "str" ->
            [ok |-> LowerAscii(v.value) \in TrueWords \cup FalseWords,
             value |-> LowerAscii(v.value) \in TrueWords]
      [] v.type \in {"null", "list", "dict"} -> [ok |-> FALSE, value |-> FALSE]

\* No item: TodoItem(**item) raised.
NoItem ==
    [ok |-> FALSE,
     item |-> [id |-> 0, title |-> <<>>, description |-> <<>>, done |-> FALSE]]

\* cls(**item) for an item of the list json.load gave: a TypeError unless the
\* item is a dict; id, title and description are required, done has a
\* default, any other key is ignored; a str field takes nothing but a str.
TodoItemFromValue(item) ==
    IF item.type # "dict" THEN NoItem
    ELSE IF ~(HasMember(item, IdKey) /\ HasMember(item, TitleKey)
                /\ HasMember(item, DescriptionKey)) THEN NoItem
    ELSE LET id == IntField(Member(item, IdKey))
             title == Member(item, TitleKey)
             description == Member(item, DescriptionKey)
             done == IF HasMember(item, DoneKey) THEN BoolField(Member(item, DoneKey))
                     ELSE [ok |-> TRUE, value |-> FALSE]
         IN  IF ~id.ok \/ title.type # "str" \/ description.type # "str" \/ ~done.ok
             THEN NoItem
             ELSE TodoItem(id.value, title.value, description.value,
                           IF done.value THEN "true" ELSE "false")

----------------------------------------------------------------------------
(* Storage Adapter.  The text of json.dump, byte by byte.                  *)

\* The bytes of a character in a file opened with encoding="utf-8".
Utf8(c) ==
    IF c < 128 THEN <<c>>
    ELSE IF c < 2048 THEN <<192 + (c \div 64), 128 + (c % 64)>>
    ELSE IF c < 65536
         THEN <<224 + (c \div 4096), 128 + ((c \div 64) % 64), 128 + (c % 64)>>
         ELSE <<240 + (c \div 262144), 128 + ((c \div 4096) % 64),
                128 + ((c \div 64) % 64), 128 + (c % 64)>>

\* The ASCII code of a hexadecimal digit, in lower case.
Hex(d) == IF d < 10 THEN 48 + d ELSE 87 + d

\* A character written as it is, a quote or a control character too, for the
\* checks below.
JsonCharPlain(c) == Utf8(c)

\* What json.dump(..., ensure_ascii=False) writes for a character of a string:
\* \" \\ \b \t \n \f \r, \u00xx for the other control characters below 0x20,
\* and the character itself otherwise.
JsonChar(c) ==
    CASE c = 34 -> <<92, 34>>
      [] c = 92 -> <<92, 92>>
      [] c = 8 -> <<92, 98>>
      [] c = 9 -> <<92, 116>>
      [] c = 10 -> <<92, 110>>
      [] c = 12 -> <<92, 102>>
      [] c = 13 -> <<92, 114>>
      [] c < 32 /\ c \notin {8, 9, 10, 12, 13} ->
            <<92, 117, 48, 48, Hex(c \div 16), Hex(c % 16)>>
      [] OTHER -> Utf8(c)

\* The texts of a sequence one after the other.
RECURSIVE Concat(_, _, _)
Concat(texts, from, to) ==
    IF from > to THEN <<>>
    ELSE IF from = to THEN texts[from]
    ELSE LET middle == (from + to) \div 2
         IN  Concat(texts, from, middle) \o Concat(texts, middle + 1, to)

\* The same, with the sequence computed once.
Flat(texts) == CHOOSE text \in {Concat(t, 1, Len(t)) : t \in {texts}} : TRUE

\* A string between its quotes.
JsonChars(s) == Flat([i \in 1..Len(s) |-> JsonChar(s[i])])

JsonString(s) == <<34>> \o JsonChars(s) \o <<34>>

\* An int in decimal.
RECURSIVE Decimal(_)
Decimal(n) ==
    IF n < 0 THEN <<45>> \o Decimal(-n)
    ELSE IF n < 10 THEN <<48 + n>>
    ELSE Decimal(n \div 10) \o <<48 + (n % 10)>>

\* "true" and "false".
JsonBool(b) == IF b THEN <<116, 114, 117, 101>> ELSE <<102, 97, 108, 115, 101>>

\* "\n" and the indentation of a level, two spaces each.
NewlineIndent(level) == <<10>> \o [i \in 1..(2 * level) |-> 32]

\* The members of an object in the order model_dump gives them: the key in
\* quotes, ": " and the value.
Members(record) ==
    (IF "id" \in DOMAIN record
     THEN << <<34>> \o IdKey \o <<34, 58, 32>> \o Decimal(record.id) >> ELSE <<>>)
    \o (IF "title" \in DOMAIN record
        THEN << <<34>> \o TitleKey \o <<34, 58, 32>> \o JsonString(record.title) >>
        ELSE <<>>)
    \o (IF "description" \in DOMAIN record
        THEN << <<34>> \o DescriptionKey \o <<34, 58, 32>>
                    \o JsonString(record.description) >> ELSE <<>>)
    \o (IF "done" \in DOMAIN record
        THEN << <<34>> \o DoneKey \o <<34, 58, 32>> \o JsonBool(record.done) >>
        ELSE <<>>)

\* The texts of a sequence, each after "," (but the first) and a new line at
\* this level of indentation.
Joined(texts, level) ==
    CHOOSE text \in
        {Flat([i \in 1..Len(t) |->
                   (IF i = 1 THEN <<>> ELSE <<44>>) \o NewlineIndent(level) \o t[i]]) :
            t \in {texts}} : TRUE

\* An object of the array: "{}" when it has no member.
ObjectText(record) ==
    IF Members(record) = <<>> THEN <<123, 125>>
    ELSE <<123>> \o Joined(Members(record), 2) \o NewlineIndent(1) \o <<125>>

\* The text json.dump(data, f, indent=2, ensure_ascii=False) writes, in UTF-8:
\* "[]" for no item.
DumpBytes(records) ==
    IF records = <<>> THEN <<91, 93>>
    ELSE <<91>> \o Joined([i \in 1..Len(records) |-> ObjectText(records[i])], 1)
            \o NewlineIndent(0) \o <<93>>

\* Bytes of the text save_all writes.
JsonLength(todos) == Len(DumpBytes(todos))

\* TextIOWrapper hands the text of json.dump to the file in one write when it
\* is no longer than this; a longer text reaches the file in several writes.
ChunkSize == 8192

----------------------------------------------------------------------------
(* Storage Adapter.  The file is absent, holds the text json.dump writes   *)
(* for a list of records, or holds bytes that are no such text.            *)

AbsentFile == [kind |-> "absent", data |-> <<>>]
JsonFile(records) == [kind |-> "json", data |-> records]

\* A file that holds the whole text of json.dump for the records of head
\* (no such text when head is <<>>) and then the bytes of tail.
TextFile(head, tail) == [kind |-> "text", data |-> <<>>, head |-> head, tail |-> tail]

\* A file somebody wrote "not json" into.
CorruptFile == TextFile(<<>>, <<110, 111, 116, 32, 106, 115, 111, 110>>)

\* The file just after open(DATA_FILE, "w"): no text, which is no JSON.
EmptyFile == TextFile(<<>>, <<>>)

\* The bytes in the file.
FileBytes(file) ==
    CASE file.kind = "json" -> DumpBytes(file.data)
      [] file.kind = "text" /\ file.head = <<>> -> file.tail
      [] file.kind = "text" /\ file.head # <<>> -> DumpBytes(file.head[1]) \o file.tail
      [] file.kind = "absent" -> <<>>

\* Bytes in the file.
FileLength(file) == Len(FileBytes(file))

\* The bytes that follow a first byte of a character in UTF-8, none for a
\* byte that begins no character.  The codec of open(..., encoding="utf-8")
\* is strict: no overlong form, no surrogate, nothing above U+10FFFF.
Continuation(b) ==
    CASE b < 128 -> 0
      [] b >= 194 /\ b <= 223 -> 1
      [] b >= 224 /\ b <= 239 -> 2
      [] b >= 240 /\ b <= 244 -> 3
      [] OTHER -> 0

\* The values the byte after this first byte may have.
SecondByte(b) ==
    CASE b = 224 -> 160..191
      [] b = 237 -> 128..159
      [] b = 240 -> 144..191
      [] b = 244 -> 128..143
      [] OTHER -> 128..191

\* Whether the bytes decode as UTF-8: every byte begins a character that is
\* whole, or continues the character begun up to three bytes before.
ValidUtf8(bytes) ==
    LET n == Len(bytes)
        Continues(k) == bytes[k] >= 128 /\ bytes[k] <= 191
        Begins(k) == bytes[k] < 128 \/ (bytes[k] >= 194 /\ bytes[k] <= 244)
        Whole(k) ==
            /\ k + Continuation(bytes[k]) <= n
            /\ \A m \in 1..Continuation(bytes[k]) :
                   bytes[k + m] \in (IF m = 1 THEN SecondByte(bytes[k]) ELSE 128..191)
        Within(k) ==
            \E j \in 1..3 :
                /\ k - j >= 1
                /\ Begins(k - j)
                /\ Continuation(bytes[k - j]) >= j
                /\ \A m \in (k - j + 1)..(k - 1) : Continues(m)
    IN  \A k \in 1..n :
            IF Continues(k) THEN Within(k) ELSE Begins(k) /\ Whole(k)

\* json.loads, the decoder of json.load, on a text in UTF-8.

\* What a step of the decoder gives: no value, or a value and the position
\* after it.
NoParse == [ok |-> FALSE, value |-> NoneValue, next |-> 0]
Parsed(v, next) == [ok |-> TRUE, value |-> v, next |-> next]

\* The white space of JSON: space, \t, \n, \r.
JsonSpace == {32, 9, 10, 13}

\* The first position from i on that holds no white space, Len(b) + 1 when
\* there is none.
SkipSpace(b, i) ==
    CHOOSE k \in i..(Len(b) + 1) :
        /\ k = Len(b) + 1 \/ b[k] \notin JsonSpace
        /\ \A m \in i..(k - 1) : b[m] \in JsonSpace

\* Whether the bytes from i on begin with word.
StartsWith(b, i, word) ==
    /\ i + Len(word) - 1 <= Len(b)
    /\ \A m \in 1..Len(word) : b[i + m - 1] = word[m]

\* The first position from i on that holds no digit.
DigitsEnd(b, i) ==
    CHOOSE k \in i..(Len(b) + 1) :
        /\ k = Len(b) + 1 \/ ~IsDigit(b[k])
        /\ \A m \in i..(k - 1) : IsDigit(b[m])

\* The number whose digits before the point begin at first and end before
\* int_end, whose fraction ends before frac_end and whose exponent, if it has
\* one, has its digits from exp_from on.
NumberUpTo(b, i, first, int_end, frac_end, exp_end) ==
    IF exp_end > int_end THEN Parsed(FloatValue(SubSeq(b, i, exp_end - 1)), exp_end)
    ELSE Parsed(IntValue((IF first > i THEN -1 ELSE 1)
                           * DecimalValue(b, first, int_end - 1)), int_end)

NumberExponent(b, i, first, int_end, frac_end, exp_from) ==
    NumberUpTo(b, i, first, int_end, frac_end,
               IF exp_from <= Len(b) /\ IsDigit(b[exp_from])
               THEN DigitsEnd(b, exp_from) ELSE frac_end)

NumberFraction(b, i, first, int_end, frac_end) ==
    NumberExponent(b, i, first, int_end, frac_end,
                   IF frac_end + 1 <= Len(b) /\ b[frac_end] \in {69, 101}
                   THEN (IF b[frac_end + 1] \in {43, 45} THEN frac_end + 2
                         ELSE frac_end + 1)
                   ELSE Len(b) + 1)

NumberDigits(b, i, first, int_end) ==
    NumberFraction(b, i, first, int_end,
                   IF int_end + 1 <= Len(b) /\ b[int_end] = 46 /\ IsDigit(b[int_end + 1])
                   THEN DigitsEnd(b, int_end + 1) ELSE int_end)

NumberFrom(b, i, first) ==
    IF first > Len(b) \/ ~IsDigit(b[first]) THEN NoParse
    ELSE NumberDigits(b, i, first, IF b[first] = 48 THEN first + 1 ELSE DigitsEnd(b, first))

\* The longest number of JSON at i: -?(0|[1-9][0-9]*)(\.[0-9]+)?([eE][-+]?[0-9]+)?
\* A number with a fraction or an exponent is a float.
ParseNumber(b, i) == NumberFrom(b, i, IF i <= Len(b) /\ b[i] = 45 THEN i + 1 ELSE i)

\* Whether the byte at k, in the string that opens at quote, follows a
\* backslash that is itself not escaped: an odd number of backslashes stands
\* right before it.
Escaped(b, quote, k) ==
    LET run == CHOOSE r \in 0..(k - quote - 1) :
                   /\ \A m \in 1..r : b[k - m] = 92
                   /\ r = k - quote - 1 \/ b[k - r - 1] # 92
    IN  run % 2 = 1

\* The quote that closes the string that opens at quote, 0 when none does.
ClosingQuote(b, quote) ==
    LET Closes(k) == b[k] = 34 /\ ~Escaped(b, quote, k)
    IN  IF \E k \in (quote + 1)..Len(b) : Closes(k)
        THEN CHOOSE k \in (quote + 1)..Len(b) :
                 Closes(k) /\ \A m \in (quote + 1)..(k - 1) : ~Closes(m)
        ELSE 0

IsHex(c) == IsDigit(c) \/ (c >= 65 /\ c <= 70) \/ (c >= 97 /\ c <= 102)
HexValue(c) == IF IsDigit(c) THEN c - 48 ELSE IF c >= 97 THEN c - 87 ELSE c - 55

\* Whether a backslash-u escape with four hexadecimal digits begins at k and
\* ends before the position last + 1, and its value.
IsUEscape(b, k, last) ==
    /\ k + 5 <= last
    /\ b[k] = 92 /\ b[k + 1] = 117
    /\ \A m \in 2..5 : IsHex(b[k + m])
UValue(b, k) ==
    4096 * HexValue(b[k + 2]) + 256 * HexValue(b[k + 3])
        + 16 * HexValue(b[k + 4]) + HexValue(b[k + 5])

\* The character an escape of one letter stands for, 0 for a letter that is
\* no escape.
EscapeChar(c) ==
    CASE c = 34 -> 34 [] c = 92 -> 92 [] c = 47 -> 47 [] c = 98 -> 8
      [] c = 102 -> 12 [] c = 110 -> 10 [] c = 114 -> 13 [] c = 116 -> 9
      [] OTHER -> 0

\* Bytes that follow the first byte of a character in UTF-8.
Following(c) == IF c < 128 THEN 0 ELSE IF c < 224 THEN 1 ELSE IF c < 240 THEN 2 ELSE 3

\* The character whose UTF-8 bytes begin at k.
Utf8Char(b, k) ==
    CASE b[k] < 128 -> b[k]
      [] b[k] >= 128 /\ b[k] < 224 -> (b[k] - 192) * 64 + (b[k + 1] - 128)
      [] b[k] >= 224 /\ b[k] < 240 ->
            (b[k] - 224) * 4096 + (b[k + 1] - 128) * 64 + (b[k + 2] - 128)
      [] b[k] >= 240 ->
            (b[k] - 240) * 262144 + (b[k + 1] - 128) * 4096
                + (b[k + 2] - 128) * 64 + (b[k + 3] - 128)

\* The string between the quotes at positions quote and close, or no value:
\* a control character, or a backslash that begins no escape.
StringFrom(b, quote, close) ==
    LET Inside == (quote + 1)..(close - 1)
        Backslash(k) == b[k] = 92 /\ ~Escaped(b, quote, k)
        HexOfEscape(k) ==
            \E m \in 1..4 : k - m > quote /\ b[k - m] = 117 /\ Escaped(b, quote, k - m)
        High(k) == IsUEscape(b, k, close - 1) /\ UValue(b, k) \in 55296..56319
        Low(k) == IsUEscape(b, k, close - 1) /\ UValue(b, k) \in 56320..57343
        \* the second half of a surrogate pair written as two escapes
        Paired(k) == Backslash(k) /\ Low(k) /\ k - 6 > quote /\ Backslash(k - 6)
                        /\ High(k - 6)
        Begins(k) ==
            /\ ~(b[k] >= 128 /\ b[k] <= 191)
            /\ ~Escaped(b, quote, k)
            /\ ~HexOfEscape(k)
            /\ ~Paired(k)
        Sound(k) ==
            IF Backslash(k)
            THEN \/ EscapeChar(b[k + 1]) # 0
                 \/ IsUEscape(b, k, close - 1)
            ELSE Escaped(b, quote, k) \/ HexOfEscape(k) \/ b[k] >= 32
        Char(k) ==
            IF ~Backslash(k) THEN Utf8Char(b, k)
            ELSE IF b[k + 1] # 117 THEN EscapeChar(b[k + 1])
            ELSE IF High(k) /\ Low(k + 6)
                 THEN 65536 + (UValue(b, k) - 55296) * 1024 + (UValue(b, k + 6) - 56320)
                 ELSE UValue(b, k)
        begins == SelectSeq([m \in 1..(close - quote - 1) |-> quote + m],
                            LAMBDA k : Begins(k))
    IN  IF \A k \in Inside : b[k] >= 32 /\ b[k] < 128 /\ b[k] # 92
        THEN Parsed(StrValue(SubSeq(b, quote + 1, close - 1)), close + 1)
        ELSE IF \E k \in Inside : ~Sound(k) THEN NoParse
        ELSE Parsed(StrValue([m \in 1..Len(begins) |-> Char(begins[m])]), close + 1)

\* The string that opens with the quote at i.
ParseString(b, i) ==
    CHOOSE out \in {IF close = 0 THEN NoParse ELSE StringFrom(b, i, close) :
                       close \in {ClosingQuote(b, i)}} : TRUE

\* A key put into the members of an object: a key the object has keeps its
\* place and takes the new value.
WithMember(members, key, v) ==
    IF \E m \in 1..Len(members) : members[m][1] = key
    THEN [m \in 1..Len(members) |->
              IF members[m][1] = key THEN <<key, v>> ELSE members[m]]
    ELSE Append(members, <<key, v>>)

RECURSIVE ParseValue(_, _)
RECURSIVE ParseItems(_, _, _)
RECURSIVE ParseMembers(_, _, _)

\* The value that begins at i, a position white space was skipped up to.
ParseValue(b, i) ==
    CASE i > Len(b) -> NoParse
      [] i <= Len(b) /\ b[i] = 34 -> ParseString(b, i)
      [] i <= Len(b) /\ b[i] = 91 ->
            CHOOSE out \in
                {IF k <= Len(b) /\ b[k] = 93 THEN Parsed(ListValue(<<>>), k + 1)
                 ELSE ParseItems(b, k, <<>>) : k \in {SkipSpace(b, i + 1)}} : TRUE
      [] i <= Len(b) /\ b[i] = 123 ->
            CHOOSE out \in
                {IF k <= Len(b) /\ b[k] = 125 THEN Parsed(DictValue(<<>>), k + 1)
                 ELSE ParseMembers(b, k, <<>>) : k \in {SkipSpace(b, i + 1)}} : TRUE
      [] i <= Len(b) /\ b[i] = 110 ->
            IF StartsWith(b, i, <<110, 117, 108, 108>>) THEN Parsed(NoneValue, i + 4)
            ELSE NoParse
      [] i <= Len(b) /\ b[i] = 116 ->
            IF StartsWith(b, i, <<116, 114, 117, 101>>)
            THEN Parsed(BoolValue(TRUE), i + 4) ELSE NoParse
      [] i <= Len(b) /\ b[i] = 102 ->
            IF StartsWith(b, i, <<102, 97, 108, 115, 101>>)
            THEN Parsed(BoolValue(FALSE), i + 5) ELSE NoParse
      [] i <= Len(b) /\ b[i] = 78 ->
            IF StartsWith(b, i, <<78, 97, 78>>)
            THEN Parsed(FloatValue(<<78, 97, 78>>), i + 3) ELSE NoParse
      [] i <= Len(b) /\ b[i] = 73 ->
            IF StartsWith(b, i, <<73, 110, 102, 105, 110, 105, 116, 121>>)
            THEN Parsed(FloatValue(SubSeq(b, i, i + 7)), i + 8) ELSE NoParse
      [] i <= Len(b) /\ b[i] = 45 /\ StartsWith(b, i, <<45, 73, 110, 102, 105, 110, 105, 116, 121>>) ->
            Parsed(FloatValue(SubSeq(b, i, i + 8)), i + 9)
      [] OTHER -> ParseNumber(b, i)

\* The items of an array from the item at i on, after the items of done.
ParseItems(b, i, done) ==
    CHOOSE out \in
        {IF ~item.ok THEN NoParse
         ELSE LET k == SkipSpace(b, item.next)
              IN  IF k > Len(b) THEN NoParse
                  ELSE IF b[k] = 93
                       THEN Parsed(ListValue(Append(done, item.value)), k + 1)
                  ELSE IF b[k] = 44
                       THEN ParseItems(b, SkipSpace(b, k + 1), Append(done, item.value))
                  ELSE NoParse :
            item \in {ParseValue(b, i)}} : TRUE

\* The members of an object from the key at i on, after the members of done.
ParseMembers(b, i, done) ==
    IF i > Len(b) \/ b[i] # 34 THEN NoParse
    ELSE CHOOSE out \in
        {IF ~key.ok THEN NoParse
         ELSE LET colon == SkipSpace(b, key.next)
              IN  IF colon > Len(b) \/ b[colon] # 58 THEN NoParse
                  ELSE CHOOSE after \in
                      {IF ~v.ok THEN NoParse
                       ELSE LET k == SkipSpace(b, v.next)
                                members == WithMember(done, key.value.value, v.value)
                            IN  IF k > Len(b) THEN NoParse
                                ELSE IF b[k] = 125 THEN Parsed(DictValue(members), k + 1)
                                ELSE IF b[k] = 44
                                     THEN ParseMembers(b, SkipSpace(b, k + 1), members)
                                ELSE NoParse :
                          v \in {ParseValue(b, SkipSpace(b, colon + 1))}} : TRUE :
            key \in {ParseString(b, i)}} : TRUE

\* json.loads(text): the value of the text, which may have white space
\* around it and nothing else.
json_loads(b) ==
    CHOOSE out \in
        {IF v.ok /\ SkipSpace(b, v.next) = Len(b) + 1
         THEN [error |-> "none", data |-> v.value]
         ELSE [error |-> "JSONDecodeError", data |-> NoneValue] :
            v \in {ParseValue(b, SkipSpace(b, 1))}} : TRUE

\* open(DATA_FILE, "r", encoding="utf-8") and json.load(f): the value, or
\* the exception raised.  A file kept as its bytes is decoded and parsed.  A
\* file kept as records holds the text of json.dump for them, whose value is
\* the list of their dicts; bytes after that text are "extra data" unless
\* they are white space, and the file is UTF-8 when they are.
\* LoadsWhatItsBytesHold, below, compares this value with the one the
\* decoder gives for the bytes of the file.
json_load(file) ==
    CASE file.kind = "absent" -> [error |-> "FileNotFoundError", data |-> NoneValue]
      [] file.kind = "json" ->
            [error |-> "none",
             data |-> ListValue([i \in 1..Len(file.data) |-> DictOf(file.data[i])])]
      [] file.kind = "text" ->
            IF ~ValidUtf8(file.tail)
            THEN [error |-> "UnicodeDecodeError", data |-> NoneValue]
            ELSE IF file.head = <<>> THEN json_loads(file.tail)
            ELSE IF SkipSpace(file.tail, 1) = Len(file.tail) + 1
                 THEN [error |-> "none",
                       data |-> ListValue([i \in 1..Len(file.head[1]) |->
                                              DictOf(file.head[1][i])])]
                 ELSE [error |-> "JSONDecodeError", data |-> NoneValue]

\* for item in data: the items of a list, the characters of a str, the keys
\* of a dict; None, a bool and a number cannot be iterated (a TypeError).  A
\* character and a key are a str, which TodoItem(**item) does not take.
Iterated(data) ==
    CASE data.type = "list" -> [raised |-> FALSE, items |-> data.value]
      [] data.type \in {"str", "dict"} ->
            [raised |-> FALSE,
             items |-> [i \in 1..Len(data.value) |-> StrValue(<<>>)]]
      [] OTHER -> [raised |-> TRUE, items |-> <<>>]

\* [cls(**item) for item in data]: the items, or the exception of the first
\* item that TodoItem does not take.
ItemsFrom(items) ==
    CHOOSE out \in
        {IF \E i \in 1..Len(built) : ~built[i].ok THEN [raised |-> TRUE, todos |-> <<>>]
         ELSE [raised |-> FALSE, todos |-> [i \in 1..Len(built) |-> built[i].item]] :
            built \in {[i \in 1..Len(items) |-> TodoItemFromValue(items[i])]}} : TRUE

\* What load_all makes of json.load: [cls(**item) for item in data], or the
\* exception it lets through.
todo_items(loaded_json) ==
    IF loaded_json.error \in {"FileNotFoundError", "JSONDecodeError"}
    THEN [raised |-> FALSE, todos |-> <<>>]
    ELSE IF loaded_json.error # "none" THEN [raised |-> TRUE, todos |-> <<>>]
    ELSE CHOOSE out \in
             {IF data.raised THEN [raised |-> TRUE, todos |-> <<>>]
              ELSE ItemsFrom(data.items) : data \in {Iterated(loaded_json.data)}} : TRUE

\* TodoItem.load_all: FileNotFoundError and JSONDecodeError give [], any other
\* exception (a file that is no UTF-8, a record that fails validation) leaves
\* the function.
load_all(file) ==
    CHOOSE ld \in {todo_items(loaded_json) : loaded_json \in {json_load(file)}} : TRUE

\* What the file system does while save_all runs: nothing wrong; open raises
\* and the file is untouched; or the file takes no more than limit bytes, and
\* the write of a longer text raises after them.
Ok == [fault |-> "none", limit |-> 0]
OpenFail == [fault |-> "open", limit |-> 0]
WriteFail(limit) == [fault |-> "write", limit |-> limit]

\* TodoItem.save_all: the content of the file after open(..., "w"), which
\* empties the file, and json.dump.
save_all(file, todos, io) ==
    CASE io.fault = "none" -> JsonFile(todos)
      [] io.fault = "open" -> file
      [] io.fault = "write" ->
            CHOOSE after \in
                {IF Len(text) <= io.limit THEN JsonFile(todos)
                 ELSE TextFile(<<>>, SubSeq(text, 1, io.limit)) :
                    text \in {DumpBytes(todos)}} : TRUE

\* Whether save_all raised, given the file it left: "ok", or the fault.
save_outcome(after, io) ==
    CASE io.fault = "none" -> "ok"
      [] io.fault = "open" -> "open_fail"
      [] io.fault = "write" -> IF after.kind = "json" THEN "ok" ELSE "write_fail"

read_data(file) == load_all(file)

\* The ids of the collection the file holds.
IdsIn(file) ==
    UNION {{ld.todos[i].id : i \in 1..Len(ld.todos)} : ld \in {load_all(file)}}

\* get_next_id as len(todos) + 1, for the checks below.
get_next_id_by_count(file) ==
    CHOOSE out \in
        {[raised |-> ld.raised, next_id |-> Len(ld.todos) + 1] :
            ld \in {load_all(file)}} : TRUE

\* TodoItem.get_next_id: max(ids, default=0) + 1; an exception that leaves
\* load_all leaves get_next_id too.
get_next_id(file) ==
    CHOOSE out \in
        {[raised |-> ld.raised,
          next_id |-> IF Len(ld.todos) = 0 THEN 1
                      ELSE SetMax({ld.todos[i].id : i \in 1..Len(ld.todos)}) + 1] :
            ld \in {load_all(file)}} : TRUE

----------------------------------------------------------------------------
(* Credential Checker.                                                     *)

USERS == [u \in {"admin", "user"} |->
              IF u = "admin" THEN "admin123" ELSE "user123"]

\* verify_credentials accepting the password of any account, for the checks below.
verify_credentials_any_password(credentials) ==
    /\ credentials.username \in DOMAIN USERS
    /\ \E u \in DOMAIN USERS : credentials.password = USERS[u]

\* verify_credentials: TRUE when it returns the username, FALSE when it raises
\* HTTPException(401).  HTTPBasic hands over ASCII text only, so
\* compare_digest is plain equality.
verify_credentials(credentials) ==
    ~(credentials.username \notin DOMAIN USERS
        \/ ~(credentials.password = USERS[credentials.username]))

----------------------------------------------------------------------------
(* Todo Service: what each handler computes.  A handler's outcome is the   *)
(* response, the file afterwards, what load_all returned to it and whether *)
(* (and how) save_all ran.                                                 *)

TASK_NOT_FOUND_MSG == "Tarefa nao encontrada."

NoBody == [kind |-> "none"]
ItemBody(item) == [kind |-> "item", item |-> item]

NotLoaded == [called |-> FALSE, raised |-> FALSE, todos |-> <<>>]
Loaded(ld) == [called |-> TRUE, raised |-> ld.raised, todos |-> ld.todos]

Response(status, detail, body) == [status |-> status, detail |-> detail, body |-> body]

\* The request ended before the handler touched the file.
Rejected(file, status, detail) ==
    [resp |-> Response(status, detail, NoBody), file |-> file,
     loaded |-> NotLoaded, saved |-> "none"]

\* The handler loaded the collection and returned or raised without saving.
NoSave(file, ld, status, detail, body) ==
    [resp |-> Response(status, detail, body), file |-> file,
     loaded |-> Loaded(ld), saved |-> "none"]

\* An exception nobody handles: the server answers 500.
ServerError(file, ld) == NoSave(file, ld, 500, "Internal Server Error", NoBody)

\* write_data(todos) and then the handler's return: an OSError of open or
\* write is not handled either.
WriteAndReturn(file, ld, todos, io, body) ==
    CHOOSE out \in
        {[resp |-> IF save_outcome(after, io) = "ok" THEN Response(200, "", body)
                   ELSE Response(500, "Internal Server Error", NoBody),
          file |-> after,
          loaded |-> Loaded(ld), saved |-> save_outcome(after, io)] :
            after \in {save_all(file, todos, io)}} : TRUE

\* Index of the first item with this id, 0 when there is none
\* (for i, todo in enumerate(todos): if todo.id == todo_id).
FirstIndex(todos, todo_id) ==
    LET hits == {i \in 1..Len(todos) : todos[i].id = todo_id}
    IN  IF hits = {} THEN 0 ELSE SetMin(hits)

\* [todo for todo in todos if todo.id < todo_id], for the checks below.
RECURSIVE BelowId(_, _)
BelowId(todos, todo_id) ==
    IF todos = <<>> THEN <<>>
    ELSE IF Head(todos).id < todo_id
         THEN <<Head(todos)>> \o BelowId(Tail(todos), todo_id)
         ELSE BelowId(Tail(todos), todo_id)

\* [todo for todo in todos if keep(todo)], for the two filters of the code.
RECURSIVE WithoutId(_, _)
WithoutId(todos, todo_id) ==
    IF todos = <<>> THEN <<>>
    ELSE IF Head(todos).id # todo_id
         THEN <<Head(todos)>> \o WithoutId(Tail(todos), todo_id)
         ELSE WithoutId(Tail(todos), todo_id)

\* [todo for todo in todos if todo.done], for the checks below.
WithDoneOnly(todos, is_done) == SelectSeq(todos, LAMBDA todo : todo.done)

RECURSIVE WithDone(_, _)
WithDone(todos, is_done) ==
    IF todos = <<>> THEN <<>>
    ELSE IF Head(todos).done = is_done
         THEN <<Head(todos)>> \o WithDone(Tail(todos), is_done)
         ELSE WithDone(Tail(todos), is_done)

DoneText(b) == IF b THEN "true" ELSE "false"

\* create_todo with todos.insert(0, new_todo), for the checks below.
create_todo_at_front(file, body, io) ==
    IF ~TodoCreate(body).ok THEN Rejected(file, 422, "validation")
    ELSE CHOOSE out \in
             {LET todo == TodoCreate(body)
                  new_todo == TodoItem(next_id.next_id, todo.title, todo.description, todo.done)
              IN  IF ld.raised \/ next_id.raised \/ ~new_todo.ok THEN ServerError(file, ld)
                  ELSE WriteAndReturn(file, ld, <<new_todo.item>> \o ld.todos, io,
                                      ItemBody(new_todo.item)) :
                 ld \in {read_data(file)}, next_id \in {get_next_id(file)}} : TRUE

create_todo(file, body, io) ==
    IF ~TodoCreate(body).ok THEN Rejected(file, 422, "validation")
    ELSE CHOOSE out \in
             {LET todo == TodoCreate(body)
                  new_todo == TodoItem(next_id.next_id, todo.title, todo.description, todo.done)
              IN  IF ld.raised \/ next_id.raised \/ ~new_todo.ok THEN ServerError(file, ld)
                  ELSE WriteAndReturn(file, ld, Append(ld.todos, new_todo.item), io,
                                      ItemBody(new_todo.item)) :
                 ld \in {read_data(file)}, next_id \in {get_next_id(file)}} : TRUE

\* update_todo taking the item out and appending the new one, for the checks
\* below.
update_todo_moving_last(file, todo_id, body, io) ==
    IF ~TodoCreate(body).ok THEN Rejected(file, 422, "validation")
    ELSE CHOOSE out \in
             {LET updated_todo == TodoCreate(body)
                  i == FirstIndex(ld.todos, todo_id)
                  updated == TodoItem(todo_id, updated_todo.title, updated_todo.description,
                                      updated_todo.done)
              IN  IF ld.raised THEN ServerError(file, ld)
                  ELSE IF i = 0 THEN NoSave(file, ld, 404, TASK_NOT_FOUND_MSG, NoBody)
                  ELSE IF ~updated.ok THEN ServerError(file, ld)
                  ELSE WriteAndReturn(file, ld, Append(WithoutId(ld.todos, todo_id), updated.item),
                                      io, ItemBody(updated.item)) :
                 ld \in {read_data(file)}} : TRUE

\* update_todo keeping the stored done when the body has none, for the checks
\* below.
update_todo_keeping_done(file, todo_id, body, io) ==
    IF ~TodoCreate(body).ok THEN Rejected(file, 422, "validation")
    ELSE CHOOSE out \in
             {LET updated_todo == TodoCreate(body)
                  i == FirstIndex(ld.todos, todo_id)
                  done == IF body.done = "omitted" THEN DoneText(ld.todos[i].done)
                          ELSE updated_todo.done
                  updated == TodoItem(todo_id, updated_todo.title, updated_todo.description, done)
              IN  IF ld.raised THEN ServerError(file, ld)
                  ELSE IF i = 0 THEN NoSave(file, ld, 404, TASK_NOT_FOUND_MSG, NoBody)
                  ELSE IF ~updated.ok THEN ServerError(file, ld)
                  ELSE WriteAndReturn(file, ld, [ld.todos EXCEPT ![i] = updated.item], io,
                                      ItemBody(updated.item)) :
                 ld \in {read_data(file)}} : TRUE

update_todo(file, todo_id, body, io) ==
    IF ~TodoCreate(body).ok THEN Rejected(file, 422, "validation")
    ELSE CHOOSE out \in
             {LET updated_todo == TodoCreate(body)
                  i == FirstIndex(ld.todos, todo_id)
                  updated == TodoItem(todo_id, updated_todo.title, updated_todo.description,
                                      updated_todo.done)
              IN  IF ld.raised THEN ServerError(file, ld)
                  ELSE IF i = 0 THEN NoSave(file, ld, 404, TASK_NOT_FOUND_MSG, NoBody)
                  ELSE IF ~updated.ok THEN ServerError(file, ld)
                  ELSE WriteAndReturn(file, ld, [ld.todos EXCEPT ![i] = updated.item], io,
                                      ItemBody(updated.item)) :
                 ld \in {read_data(file)}} : TRUE

\* delete_todo keeping the ids below todo_id only, for the checks below.
delete_todo_keeping_below(file, todo_id, io) ==
    CHOOSE out \in
        {LET todos == BelowId(ld.todos, todo_id)
         IN  IF ld.raised THEN ServerError(file, ld)
             ELSE IF Len(todos) = Len(ld.todos)
             THEN NoSave(file, ld, 404, TASK_NOT_FOUND_MSG, NoBody)
             ELSE WriteAndReturn(file, ld, todos, io,
                                 [kind |-> "message", message |-> "Tarefa removida com sucesso."]) :
            ld \in {read_data(file)}} : TRUE

\* delete_todo without the 404 of an unknown id, for the checks below.
delete_todo_unchecked(file, todo_id, io) ==
    CHOOSE out \in
        {IF ld.raised THEN ServerError(file, ld)
         ELSE WriteAndReturn(file, ld, WithoutId(ld.todos, todo_id), io,
                             [kind |-> "message", message |-> "Tarefa removida com sucesso."]) :
            ld \in {read_data(file)}} : TRUE

\* delete_todo with write_data(read_data()) in place of write_data(todos),
\* for the checks below.
delete_todo_writing_loaded(file, todo_id, io) ==
    CHOOSE out \in
        {LET todos == WithoutId(ld.todos, todo_id)
         IN  IF ld.raised THEN ServerError(file, ld)
             ELSE IF Len(todos) = Len(ld.todos)
             THEN NoSave(file, ld, 404, TASK_NOT_FOUND_MSG, NoBody)
             ELSE WriteAndReturn(file, ld, ld.todos, io,
                                 [kind |-> "message", message |-> "Tarefa removida com sucesso."]) :
            ld \in {read_data(file)}} : TRUE

delete_todo(file, todo_id, io) ==
    CHOOSE out \in
        {LET todos == WithoutId(ld.todos, todo_id)
         IN  IF ld.raised THEN ServerError(file, ld)
             ELSE IF Len(todos) = Len(ld.todos)
             THEN NoSave(file, ld, 404, TASK_NOT_FOUND_MSG, NoBody)
             ELSE WriteAndReturn(file, ld, todos, io,
                                 [kind |-> "message", message |-> "Tarefa removida com sucesso."]) :
            ld \in {read_data(file)}} : TRUE

get_todo(file, todo_id) ==
    CHOOSE out \in
        {LET i == FirstIndex(ld.todos, todo_id)
         IN  IF ld.raised THEN ServerError(file, ld)
             ELSE IF i = 0 THEN NoSave(file, ld, 404, TASK_NOT_FOUND_MSG, NoBody)
             ELSE NoSave(file, ld, 200, "", ItemBody(ld.todos[i])) :
            ld \in {read_data(file)}} : TRUE

\* toggle_todo_status with done=True in place of done=not todo.done, for the
\* checks below.
toggle_todo_status_setting_done(file, todo_id, io) ==
    CHOOSE out \in
        {LET i == FirstIndex(ld.todos, todo_id)
             todo == ld.todos[i]
             updated == TodoItem(todo.id, todo.title, todo.description, "true")
         IN  IF ld.raised THEN ServerError(file, ld)
             ELSE IF i = 0 THEN NoSave(file, ld, 404, TASK_NOT_FOUND_MSG, NoBody)
             ELSE IF ~updated.ok THEN ServerError(file, ld)
             ELSE WriteAndReturn(file, ld, [ld.todos EXCEPT ![i] = updated.item], io,
                                 ItemBody(updated.item)) :
            ld \in {read_data(file)}} : TRUE

toggle_todo_status(file, todo_id, io) ==
    CHOOSE out \in
        {LET i == FirstIndex(ld.todos, todo_id)
             todo == ld.todos[i]
             updated == TodoItem(todo.id, todo.title, todo.description, DoneText(~todo.done))
         IN  IF ld.raised THEN ServerError(file, ld)
             ELSE IF i = 0 THEN NoSave(file, ld, 404, TASK_NOT_FOUND_MSG, NoBody)
             ELSE IF ~updated.ok THEN ServerError(file, ld)
             ELSE WriteAndReturn(file, ld, [ld.todos EXCEPT ![i] = updated.item], io,
                                 ItemBody(updated.item)) :
            ld \in {read_data(file)}} : TRUE

get_todos_by_status(file, status) ==
    CHOOSE out \in
        {LET is_done == (status = "completed")
             filtered_todos == WithDone(ld.todos, is_done)
         IN  IF status \notin {"completed", "pending"}
             THEN Rejected(file, 400, "Status deve ser 'completed' ou 'pending'")
             ELSE IF ld.raised THEN ServerError(file, ld)
             ELSE NoSave(file, ld, 200, "",
                         [kind |-> "status", status |-> status,
                          count |-> Len(filtered_todos), todos |-> filtered_todos]) :
            ld \in {read_data(file)}} : TRUE

----------------------------------------------------------------------------
(* list_todos: ordering and pagination.  An optional query parameter is a  *)
(* sequence: <<>> when absent, <<v>> when given as v.                      *)

SizeMax == 100

\* key(a) < key(b) for key = getattr(x, order_by); False < True for done.
KeyLess(a, b, order_by) ==
    CASE order_by = "id" -> a.id < b.id
      [] order_by = "title" -> StrLess(a.title, b.title)
      [] order_by = "description" -> StrLess(a.description, b.description)
      [] order_by = "done" -> ~a.done /\ b.done

Reverse(s) == [i \in 1..Len(s) |-> s[Len(s) + 1 - i]]

\* x goes after every element whose key is not greater than its own.
RECURSIVE InsertByKey(_, _, _)
InsertByKey(sorted, x, order_by) ==
    IF sorted = <<>> THEN <<x>>
    ELSE IF KeyLess(x, Head(sorted), order_by)
         THEN <<x>> \o sorted
         ELSE <<Head(sorted)>> \o InsertByKey(Tail(sorted), x, order_by)

\* list.sort(key=...): ascending and stable.
RECURSIVE SortAscending(_, _)
SortAscending(todos, order_by) ==
    IF todos = <<>> THEN <<>>
    ELSE InsertByKey(SortAscending(SubSeq(todos, 1, Len(todos) - 1), order_by),
                     todos[Len(todos)], order_by)

\* A descending sort done as the ascending sort reversed, for the checks below.
SortDescendingByReversal(todos, order_by) == Reverse(SortAscending(todos, order_by))

\* list.sort(key=..., reverse=True): CPython reverses the list, sorts it
\* ascending and reverses the result, which keeps equal keys in their order.
SortDescending(todos, order_by) ==
    Reverse(SortAscending(Reverse(todos), order_by))

\* todos.sort(key=lambda x: getattr(x, order_by), reverse=reverse)
SortTodos(todos, order_by, order_direction) ==
    IF order_direction = "desc" THEN SortDescending(todos, order_by)
    ELSE SortAscending(todos, order_by)

\* s[start_index:end_index] for 0 <= start_index <= end_index.
Slice(s, start_index, end_index) ==
    LET stop == IF end_index < Len(s) THEN end_index ELSE Len(s)
    IN  IF start_index >= stop THEN <<>>
        ELSE [i \in 1..(stop - start_index) |-> s[start_index + i]]

ValidFields == {"id", "title", "description", "done"}

\* total // size, for the checks below.
TotalPagesRoundedDown(total, size) == total \div size

\* (total + size - 1) // size
TotalPages(total, size) == (total + size - 1) \div size

list_todos(file, page, size, order_by, order_direction) ==
    CHOOSE out \in
        {LET given == order_by # <<>> /\ order_by[1] # ""
             direction == IF order_direction = <<>> THEN "asc" ELSE order_direction[1]
             todos == IF given THEN SortTodos(ld.todos, order_by[1], direction)
                      ELSE ld.todos
             total == Len(todos)
             start_index == (page - 1) * size
             end_index == start_index + size
         IN  IF page < 1 \/ size < 1 \/ size > SizeMax
             THEN Rejected(file, 422, "validation")
             ELSE IF ld.raised THEN ServerError(file, ld)
             ELSE IF given /\ order_by[1] \notin ValidFields
             THEN NoSave(file, ld, 400, "Campo invalido", NoBody)
             ELSE NoSave(file, ld, 200, "",
                         [kind |-> "page", page |-> page, size |-> size, total |-> total,
                          total_pages |-> TotalPages(total, size),
                          items |-> Slice(todos, start_index, end_index)]) :
            ld \in {read_data(file)}} : TRUE

----------------------------------------------------------------------------
(* Requests.  Every route depends on verify_credentials, which runs before *)
(* the body and the query are validated and before the handler.            *)

Unauthorized(file) == Rejected(file, 401, "Credenciais invalidas")

Authenticated(file, credentials, outcome) ==
    IF verify_credentials(credentials) THEN outcome ELSE Unauthorized(file)

Request(op, r) == [op |-> op, credentials |-> r.credentials, args |-> r.args]

\* The bound of the model on create: the collection and the ids stay small.
\* A create on a file that load_all cannot build is not bounded: it ends 500.
CanGrow(file) ==
    \E ld \in {load_all(file)}, next_id \in {get_next_id(file)} :
        \/ ld.raised
        \/ /\ Len(ld.todos) < MaxItems
           /\ next_id.next_id <= MaxId

\* The ids the collection has held so far, after a request that left this
\* file: the ids seen before and the ids of the file when the request wrote it.
SeenAfter(file) == IF file = store THEN seen ELSE seen \cup IdsIn(file)

\* POST /todos.  CanGrow bounds the model.
CreateTodo(requests, ios) ==
    /\ CanGrow(store)
    /\ \E r \in requests, io \in ios :
        \E out \in {Authenticated(store, r.credentials,
                       create_todo(store, r.args.body, io))} :
            /\ req' = Request("create", r)
            /\ resp' = out.resp
            /\ store' = out.file
            /\ loaded' = out.loaded
            /\ saved' = out.saved
            /\ seen' = SeenAfter(out.file)
            /\ UNCHANGED procs

\* PUT /todos/{todo_id}
UpdateTodo(requests, ios) ==
    \E r \in requests, io \in ios :
        \E out \in {Authenticated(store, r.credentials,
                       update_todo(store, r.args.todo_id, r.args.body, io))} :
            /\ req' = Request("update", r)
            /\ resp' = out.resp
            /\ store' = out.file
            /\ loaded' = out.loaded
            /\ saved' = out.saved
            /\ seen' = SeenAfter(out.file)
            /\ UNCHANGED procs

\* DELETE /todos/{todo_id}
DeleteTodo(requests, ios) ==
    \E r \in requests, io \in ios :
        \E out \in {Authenticated(store, r.credentials,
                       delete_todo(store, r.args.todo_id, io))} :
            /\ req' = Request("delete", r)
            /\ resp' = out.resp
            /\ store' = out.file
            /\ loaded' = out.loaded
            /\ saved' = out.saved
            /\ seen' = SeenAfter(out.file)
            /\ UNCHANGED procs

\* GET /todos/{todo_id}
GetTodo(requests) ==
    \E r \in requests :
        \E out \in {Authenticated(store, r.credentials,
                       get_todo(store, r.args.todo_id))} :
            /\ req' = Request("get", r)
            /\ resp' = out.resp
            /\ store' = out.file
            /\ loaded' = out.loaded
            /\ saved' = out.saved
            /\ seen' = SeenAfter(out.file)
            /\ UNCHANGED procs

\* PATCH /todos/{todo_id}/toggle
ToggleTodo(requests, ios) ==
    \E r \in requests, io \in ios :
        \E out \in {Authenticated(store, r.credentials,
                       toggle_todo_status(store, r.args.todo_id, io))} :
            /\ req' = Request("toggle", r)
            /\ resp' = out.resp
            /\ store' = out.file
            /\ loaded' = out.loaded
            /\ saved' = out.saved
            /\ seen' = SeenAfter(out.file)
            /\ UNCHANGED procs

\* GET /todos/status/{status}
GetTodosByStatus(requests) ==
    \E r \in requests :
        \E out \in {Authenticated(store, r.credentials,
                       get_todos_by_status(store, r.args.status))} :
            /\ req' = Request("status", r)
            /\ resp' = out.resp
            /\ store' = out.file
            /\ loaded' = out.loaded
            /\ saved' = out.saved
            /\ seen' = SeenAfter(out.file)
            /\ UNCHANGED procs

\* GET /todos
ListTodos(requests) ==
    \E r \in requests :
        \E out \in {Authenticated(store, r.credentials,
                       list_todos(store, r.args.page, r.args.size, r.args.order_by,
                               r.args.order_direction))} :
            /\ req' = Request("list", r)
            /\ resp' = out.resp
            /\ store' = out.file
            /\ loaded' = out.loaded
            /\ saved' = out.saved
            /\ seen' = SeenAfter(out.file)
            /\ UNCHANGED procs

----------------------------------------------------------------------------
(* The requests tried.                                                     *)

Admin == [username |-> "admin", password |-> "admin123"]

\* The other credentials: the second account, a known user with a wrong
\* password (another account's), an unknown user with a known password.
OtherCredentials ==
    {[username |-> "user", password |-> "user123"],
     [username |-> "admin", password |-> "user123"],
     [username |-> "guest", password |-> "admin123"]}

Str(c) == <<c>>

DefaultBody == [title |-> <<Chr.A>>, description |-> <<Chr.B>>, done |-> "omitted"]

\* Bodies that vary one field of the default body at a time.
Bodies ==
    {[DefaultBody EXCEPT !.title = t] : t \in {<<>>, <<Chr.Space>>, <<Chr.Space, Chr.B, Chr.Space>>}}
        \cup {[DefaultBody EXCEPT !.description = d] : d \in {<<>>, <<Chr.Tab, Chr.B, Chr.Newline>>}}
        \cup {[DefaultBody EXCEPT !.done = d] : d \in {"true", "false", "null", "omitted"}}

Ids == 1..MaxId

\* args with the administrator's credentials, defaults with the other ones.
WithCredentials(args, default) ==
    {[credentials |-> Admin, args |-> a] : a \in args}
        \cup {[credentials |-> c, args |-> default] : c \in OtherCredentials}

CreateRequests == WithCredentials({[body |-> b] : b \in Bodies}, [body |-> DefaultBody])

UpdateRequests ==
    WithCredentials({[todo_id |-> i, body |-> b] : i \in Ids, b \in Bodies},
                    [todo_id |-> 1, body |-> DefaultBody])

IdRequests == WithCredentials({[todo_id |-> i] : i \in Ids}, [todo_id |-> 1])

StatusRequests ==
    WithCredentials({[status |-> s] : s \in {"completed", "pending", "done"}},
                    [status |-> "pending"])

DefaultQuery ==
    [page |-> 1, size |-> 10, order_by |-> <<>>, order_direction |-> <<>>]

ListRequests ==
    WithCredentials(
        {DefaultQuery,
         [DefaultQuery EXCEPT !.page = 2, !.size = 1],
         [DefaultQuery EXCEPT !.order_by = Str("done"), !.order_direction = Str("desc")],
         [DefaultQuery EXCEPT !.order_by = Str("title"), !.size = 1],
         [DefaultQuery EXCEPT !.page = 0],
         [DefaultQuery EXCEPT !.size = SizeMax + 1],
         [DefaultQuery EXCEPT !.order_by = Str("priority")]},
        DefaultQuery)

\* The file system does what it is asked.
Reliable == {Ok}

Create == CreateTodo(CreateRequests, Reliable)
Update == UpdateTodo(UpdateRequests, Reliable)
Delete == DeleteTodo(IdRequests, Reliable)
Get == GetTodo(IdRequests)
Toggle == ToggleTodo(IdRequests, Reliable)
ListByStatus == GetTodosByStatus(StatusRequests)
List == ListTodos(ListRequests)

NoRequest == [op |-> "none", credentials |-> Admin, args |-> [none |-> TRUE]]

\* The requests served concurrently, and a request that has not started.
Procs == {"p1", "p2"}
NotStarted ==
    [pc |-> "start", op |-> "none", todo_id |-> 0, body |-> DefaultBody,
     base |-> <<>>, todos |-> <<>>, status |-> 0, got |-> <<>>, room |-> 0]

\* No history yet and no request under way.
Started ==
    /\ seen = IdsIn(store)
    /\ procs = [p \in Procs |-> NotStarted]

\* Nothing served yet.
Idle ==
    /\ req = NoRequest
    /\ resp = Response(0, "", NoBody)
    /\ loaded = NotLoaded
    /\ saved = "none"

\* data.json is created as "[]" when the module is imported and the file is absent.
Init == store = JsonFile(<<>>) /\ Idle /\ Started

Next == Create \/ Update \/ Delete \/ Get \/ Toggle \/ ListByStatus \/ List

\* The service, one request at a time, from an empty store.
Spec == Init /\ [][Next]_vars

----------------------------------------------------------------------------
(* The service on a file system that can fail while save_all runs.         *)

\* open fails, or the file takes 35 bytes of the text and no more: 35 bytes
\* end after the first character of the first title, and hold "[]".
FaultLimits == {35}
IOFaults == {OpenFail} \cup {WriteFail(n) : n \in FaultLimits}

\* A body whose title has a character of three bytes in second place.
SpacedBody == [DefaultBody EXCEPT !.title = <<Chr.A, Chr.IdeographicSpace, Chr.A>>]

\* The requests a fault can reach: save_all runs for the requests of the
\* administrator with a valid body only.
FaultBodies == {DefaultBody, SpacedBody}
Of(arguments) == {[credentials |-> Admin, args |-> a] : a \in arguments}

CreateFault == CreateTodo(Of({[body |-> b] : b \in FaultBodies}), IOFaults)
UpdateFault ==
    UpdateTodo(Of({[todo_id |-> i, body |-> b] : i \in Ids, b \in FaultBodies}), IOFaults)
DeleteFault == DeleteTodo(Of({[todo_id |-> i] : i \in Ids}), IOFaults)
ToggleFault == ToggleTodo(Of({[todo_id |-> i] : i \in Ids}), IOFaults)

NextFault == Next \/ CreateFault \/ UpdateFault \/ DeleteFault \/ ToggleFault

SpecFault == Init /\ [][NextFault]_vars

----------------------------------------------------------------------------
(* Texts of data.json given byte by byte.                                  *)

\* A title json.dump writes with escapes and with characters of two and of
\* four bytes: A, a quote, a backslash, a tab, e acute, U+1F600, U+0001, B.
TrickyTitle == <<Chr.A, 34, 92, Chr.Tab, Chr.EAcute, 128512, 1, Chr.B>>

\* What json.dump(..., indent=2, ensure_ascii=False) writes for the items
\* {2, TrickyTitle, "B\nA", true} and {1, "A", "B", false}.
WrittenText ==
    <<91, 10, 32, 32, 123, 10, 32, 32, 32, 32, 34, 105, 100, 34, 58, 32, 50,
      44, 10, 32, 32, 32, 32, 34, 116, 105, 116, 108, 101, 34, 58, 32, 34, 65,
      92, 34, 92, 92, 92, 116, 195, 169, 240, 159, 152, 128, 92, 117, 48, 48,
      48, 49, 66, 34, 44, 10, 32, 32, 32, 32, 34, 100, 101, 115, 99, 114, 105,
      112, 116, 105, 111, 110, 34, 58, 32, 34, 66, 92, 110, 65, 34, 44, 10,
      32, 32, 32, 32, 34, 100, 111, 110, 101, 34, 58, 32, 116, 114, 117, 101,
      10, 32, 32, 125, 44, 10, 32, 32, 123, 10, 32, 32, 32, 32, 34, 105, 100,
      34, 58, 32, 49, 44, 10, 32, 32, 32, 32, 34, 116, 105, 116, 108, 101, 34,
      58, 32, 34, 65, 34, 44, 10, 32, 32, 32, 32, 34, 100, 101, 115, 99, 114,
      105, 112, 116, 105, 111, 110, 34, 58, 32, 34, 66, 34, 44, 10, 32, 32,
      32, 32, 34, 100, 111, 110, 101, 34, 58, 32, 102, 97, 108, 115, 101, 10,
      32, 32, 125, 10, 93>>

\* The same items on one line, with \u escapes for the characters above 127:
\* [{"id":2,"title":"A\"\\\té😀\u0001B","description":"B\nA",
\* "done":true},{"id":1,"title":"A","description":"B","done":false}]
CompactText ==
    <<91, 123, 34, 105, 100, 34, 58, 50, 44, 34, 116, 105, 116, 108, 101, 34,
      58, 34, 65, 92, 34, 92, 92, 92, 116, 92, 117, 48, 48, 101, 57, 92, 117,
      100, 56, 51, 100, 92, 117, 100, 101, 48, 48, 92, 117, 48, 48, 48, 49,
      66, 34, 44, 34, 100, 101, 115, 99, 114, 105, 112, 116, 105, 111, 110,
      34, 58, 34, 66, 92, 110, 65, 34, 44, 34, 100, 111, 110, 101, 34, 58,
      116, 114, 117, 101, 125, 44, 123, 34, 105, 100, 34, 58, 49, 44, 34, 116,
      105, 116, 108, 101, 34, 58, 34, 65, 34, 44, 34, 100, 101, 115, 99, 114,
      105, 112, 116, 105, 111, 110, 34, 58, 34, 66, 34, 44, 34, 100, 111, 110,
      101, 34, 58, 102, 97, 108, 115, 101, 125, 93>>

\* [ {"done": false, "description": "B", "title": "A", "id": 1} ] and a new
\* line: an item with its fields in another order.
ReorderedText ==
    <<91, 32, 123, 34, 100, 111, 110, 101, 34, 58, 32, 102, 97, 108, 115, 101,
      44, 32, 34, 100, 101, 115, 99, 114, 105, 112, 116, 105, 111, 110, 34,
      58, 32, 34, 66, 34, 44, 32, 34, 116, 105, 116, 108, 101, 34, 58, 32, 34,
      65, 34, 44, 32, 34, 105, 100, 34, 58, 32, 49, 125, 32, 93, 10>>

\* [{"id": 1, "title": " B ", "description": "B"}]: load_all accepts the
\* record, which is no item as stored: the title is not trimmed and done is
\* left out.
UntrimmedText ==
    <<91, 123, 34, 105, 100, 34, 58, 32, 49, 44, 32, 34, 116, 105, 116, 108,
      101, 34, 58, 32, 34, 32, 66, 32, 34, 44, 32, 34, 100, 101, 115, 99, 114,
      105, 112, 116, 105, 111, 110, 34, 58, 32, 34, 66, 34, 125, 93>>

\* [{"id": "2", "title": "A", "description": "B", "done": "yes",
\* "extra": null}]: load_all accepts the record, whose id and done TodoItem
\* converts and whose fifth member it ignores.
CoercedText ==
    <<91, 123, 34, 105, 100, 34, 58, 32, 34, 50, 34, 44, 32, 34, 116, 105,
      116, 108, 101, 34, 58, 32, 34, 65, 34, 44, 32, 34, 100, 101, 115, 99,
      114, 105, 112, 116, 105, 111, 110, 34, 58, 32, 34, 66, 34, 44, 32, 34,
      100, 111, 110, 101, 34, 58, 32, 34, 121, 101, 115, 34, 44, 32, 34, 101,
      120, 116, 114, 97, 34, 58, 32, 110, 117, 108, 108, 125, 93>>

----------------------------------------------------------------------------
(* The service started on a data.json that already exists (the module only *)
(* writes "[]" when the file is absent), or whose file was removed.        *)

ValidRecord == [id |-> 1, title |-> <<Chr.A>>, description |-> <<Chr.B>>, done |-> FALSE]

\* A file somebody wrote "caf\xe9" into in Latin-1: no UTF-8.
Latin1File == TextFile(<<>>, <<99, 97, 102, 233>>)

\* A file that holds the text null, and one that holds [1]: both are JSON,
\* neither is a list of objects.
NullFile == TextFile(<<>>, <<110, 117, 108, 108>>)
NumbersFile == TextFile(<<>>, <<91, 49, 93>>)

InitialFiles ==
    {AbsentFile, CorruptFile, Latin1File, JsonFile(<<>>), JsonFile(<<ValidRecord>>),
     JsonFile(<<[ValidRecord EXCEPT !.id = 0]>>),
     JsonFile(<<[ValidRecord EXCEPT !.title = <<Chr.Space>>]>>),
     JsonFile(<<[ValidRecord EXCEPT !.title = <<Chr.Space, Chr.B, Chr.Space>>]>>),
     JsonFile(<<[ValidRecord EXCEPT !.description = Rep(Chr.y, DescriptionMaxLength + 1)]>>),
     JsonFile(<<[id |-> 1, description |-> <<Chr.B>>, done |-> TRUE]>>),
     JsonFile(<<[id |-> 1, title |-> <<Chr.A>>, description |-> <<Chr.B>>]>>),
     JsonFile(<<ValidRecord, [ValidRecord EXCEPT !.id = -1]>>),
     TextFile(<<>>, CompactText), TextFile(<<>>, CoercedText),
     NullFile, NumbersFile}

InitLoad == store \in InitialFiles /\ Idle /\ Started

SpecLoad == InitLoad /\ [][Next]_vars

----------------------------------------------------------------------------
(* Validation of the request body: one create or update per run, over      *)
(* titles and descriptions around the length limits.                       *)

Titles ==
    {<<>>, <<Chr.Space>>, <<Chr.Space, Chr.A, Chr.Space>>, <<Chr.Return>>, <<Chr.Return, Chr.A, Chr.VerticalTab>>,
     <<Chr.IdeographicSpace, Chr.FormFeed>>, Rep(Chr.x, TitleMaxLength),
     <<Chr.Space>> \o Rep(Chr.x, TitleMaxLength), Rep(Chr.x, TitleMaxLength + 1)}

Descriptions ==
    {<<>>, <<Chr.Tab>>, <<Chr.Space, Chr.B, Chr.Newline>>, Rep(Chr.y, DescriptionMaxLength),
     Rep(Chr.y, DescriptionMaxLength + 1)}

\* The default body with any of these titles, or any of these descriptions.
AnyBodies ==
    {[title |-> t, description |-> <<Chr.B>>, done |-> x] :
        t \in Titles, x \in {"omitted", "true", "false"}}
    \cup {[title |-> <<Chr.A>>, description |-> d, done |-> x] :
            d \in Descriptions, x \in {"omitted", "true", "false"}}

CreateAny == Idle /\ CreateTodo({[credentials |-> Admin, args |-> [body |-> b]] :
                                     b \in AnyBodies}, Reliable)

UpdateAny == Idle /\ UpdateTodo({[credentials |-> Admin, args |-> [todo_id |-> 1, body |-> b]] :
                                     b \in AnyBodies}, Reliable)

InitValidate == store \in {JsonFile(<<>>), JsonFile(<<ValidRecord>>)} /\ Idle /\ Started

NextValidate == CreateAny \/ UpdateAny

SpecValidate == InitValidate /\ [][NextValidate]_vars

----------------------------------------------------------------------------
(* list_todos as a function of the collection and the query: one listing   *)
(* per run, over collections in any order of ids.                          *)

MaxListItems == 3

\* Title, description and done of the items listed: some keys are equal.
ItemVariants ==
    {[title |-> <<Chr.A>>, description |-> <<Chr.B>>, done |-> FALSE],
     [title |-> <<Chr.A>>, description |-> <<Chr.A>>, done |-> TRUE],
     [title |-> <<Chr.B>>, description |-> <<Chr.A>>, done |-> FALSE]}

ListItems ==
    {[id |-> i, title |-> v.title, description |-> v.description, done |-> v.done] :
        i \in 1..MaxListItems, v \in ItemVariants}

\* Collections of items with distinct ids, in any order.
Collections ==
    UNION {{c \in [1..n -> ListItems] : \A i, j \in 1..n : c[i].id = c[j].id => i = j} :
              n \in 0..MaxListItems}

AnyQueries ==
    {[page |-> p, size |-> z, order_by |-> o, order_direction |-> d] :
        p \in {1, 2, 3}, z \in {1, 2, SizeMax}, o \in {<<>>, Str("done")},
        d \in {<<>>, Str("desc")}}
    \cup {[page |-> 1, size |-> SizeMax, order_by |-> o, order_direction |-> d] :
            o \in {<<>>, Str(""), Str("id"), Str("title"), Str("description"),
                   Str("done"), Str("priority")},
            d \in {<<>>, Str("asc"), Str("desc"), Str("DESC")}}
    \cup {[DefaultQuery EXCEPT !.page = 0], [DefaultQuery EXCEPT !.size = 0],
          [DefaultQuery EXCEPT !.size = SizeMax + 1]}

ListAny == Idle /\ ListTodos({[credentials |-> Admin, args |-> q] : q \in AnyQueries})

InitList == store \in {JsonFile(c) : c \in Collections} /\ Idle /\ Started

NextList == ListAny

SpecList == InitList /\ [][NextList]_vars

----------------------------------------------------------------------------
(* TodoItem.save_all(TodoItem.load_all()) as a function of the file: one   *)
(* round trip per run, over files load_all accepts.  The files are kept as *)
(* their bytes, which load_all decodes.  The request records the file it   *)
(* started from.                                                           *)

\* Items as the service stores them: a positive id, a title and a
\* description without surrounding whitespace, done.
StoredItems ==
    {[id |-> i, title |-> t, description |-> d, done |-> x] :
        i \in Ids, t \in {<<Chr.A>>, TrickyTitle},
        d \in {<<Chr.B>>, <<Chr.B, Chr.Newline, Chr.A>>}, x \in BOOLEAN}

\* The files that hold the text json.dump writes for such items, with
\* distinct ids in any order.
WrittenFiles ==
    {TextFile(<<>>, DumpBytes(c)) : c \in
        UNION {{c \in [1..n -> StoredItems] :
                   \A i, j \in 1..n : c[i].id = c[j].id => i = j} : n \in 0..MaxItems}}

HandWrittenFiles ==
    {TextFile(<<>>, text) :
        text \in {WrittenText, CompactText, ReorderedText, UntrimmedText, CoercedText}}

\* Files load_all does not raise on: the written ones, the ones given byte by
\* byte, and a file that is no JSON.
AcceptedFiles == WrittenFiles \cup HandWrittenFiles \cup {CorruptFile}

SaveLoaded ==
    /\ Idle
    /\ \E ld \in {load_all(store)} :
        /\ ~ld.raised
        /\ req' = [op |-> "save_loaded", credentials |-> Admin, args |-> [file |-> store]]
        /\ resp' = resp
        /\ store' = save_all(store, ld.todos, Ok)
        /\ loaded' = Loaded(ld)
        /\ saved' = "ok"
        /\ seen' = seen \cup IdsIn(store')
        /\ UNCHANGED procs

InitRoundTrip == store \in AcceptedFiles /\ Idle /\ Started

NextRoundTrip == SaveLoaded

SpecRoundTrip == InitRoundTrip /\ [][NextRoundTrip]_vars

----------------------------------------------------------------------------
(* Requests served concurrently.  No lock is taken: a handler reads the    *)
(* file, works on its copy and writes the file, and the requests of other  *)
(* workers reach the file between these steps.  A step is one call of the  *)
(* operating system on the file.  f.read() of json.load asks for the size  *)
(* of the file and then calls read(2) until it gets no byte.  save_all is  *)
(* two steps: open(DATA_FILE, "w"), which empties the file, and json.dump  *)
(* with the close of the file, which writes the text from the start of the *)
(* file.  create_todo reads twice, in read_data() for its copy and in      *)
(* get_next_id() for the id.  Each worker serves one request of the        *)
(* administrator with a valid body.                                        *)

UpdatedBody == [title |-> <<Chr.B>>, description |-> <<Chr.A>>, done |-> "true"]

\* A title of characters of three bytes each.
WideTitle == <<Chr.A>> \o Rep(Chr.IdeographicSpace, 20) \o <<Chr.A>>
WideBody == [UpdatedBody EXCEPT !.title = WideTitle]

\* The create sends the default body; an update sends the updated body, and
\* the update of item 1 the body with the wide title as well.
ConcurrentRequests ==
    {[op |-> "create", todo_id |-> 0, body |-> DefaultBody]}
        \cup {[op |-> o, todo_id |-> i, body |-> UpdatedBody] :
                  o \in {"update", "delete", "toggle"}, i \in Ids}
        \cup {[op |-> "update", todo_id |-> 1, body |-> WideBody]}

\* The handler run on the content it read: what it answers and what it is
\* about to write.
OnCopy(file, r) ==
    CASE r.op = "update" -> update_todo(file, r.todo_id, r.body, Ok)
      [] r.op = "delete" -> delete_todo(file, r.todo_id, Ok)
      [] r.op = "toggle" -> toggle_todo_status(file, r.todo_id, Ok)

\* The room FileIO.readall gives its buffer at first: a byte more than the
\* file holds, SmallChunk for a file that holds nothing.
SmallChunk == 8192
FirstRoom(file) ==
    CHOOSE room \in {IF size > 0 THEN size + 1 ELSE SmallChunk :
                        size \in {FileLength(file)}} : TRUE

\* The room of a buffer that is full with size bytes, after FileIO.readall
\* has enlarged it.
GrownRoom(size) ==
    IF size > 65536 THEN size + (size \div 8)
    ELSE IF 256 + size < SmallChunk THEN size + SmallChunk
    ELSE size + 256 + size

\* The room of the buffer at the next read(2): it is enlarged when full.
RoomNow(local) ==
    IF Len(local.got) >= local.room THEN GrownRoom(Len(local.got)) ELSE local.room

\* What one read(2) gives a reader that has got the first bytes of its text
\* already: the bytes the file holds after that many, as far as the buffer
\* has room; none at the end of the file.
ReadBytes(file, local) ==
    CHOOSE more \in
        {SubSeq(held, Len(local.got) + 1,
                IF Len(held) < RoomNow(local) THEN Len(held) ELSE RoomNow(local)) :
            held \in {FileBytes(file)}} : TRUE

\* todos = read_data(), for the text f.read() has put together, and the work
\* on the copy up to the next access to the file: get_next_id() in
\* create_todo, write_data(todos) in the others, none when the id is not in
\* the copy (404) or load_all raised (500).
AfterReadData(file, started) ==
    LET ended == [started EXCEPT !.got = <<>>, !.room = 0]
    IN  IF started.op = "create"
        THEN CHOOSE after \in
                 {IF ld.raised THEN [ended EXCEPT !.pc = "done", !.status = 500]
                  ELSE [ended EXCEPT !.pc = "next_id", !.base = ld.todos,
                                     !.todos = ld.todos] :
                     ld \in {read_data(file)}} : TRUE
        ELSE CHOOSE after \in
                 {IF out.saved = "ok"
                  THEN [ended EXCEPT !.pc = "open", !.base = out.loaded.todos,
                                     !.todos = out.file.data]
                  ELSE [ended EXCEPT !.pc = "done", !.base = out.loaded.todos,
                                     !.todos = out.loaded.todos,
                                     !.status = out.resp.status] :
                     out \in {OnCopy(file, started)}} : TRUE

\* next_id = TodoItem.get_next_id(), for the text f.read() has put together;
\* new_todo = TodoItem(id=next_id, ...); todos.append(new_todo)
AfterGetNextId(file, started) ==
    CHOOSE after \in
        {LET local == [started EXCEPT !.got = <<>>, !.room = 0]
             todo == TodoCreate(started.body)
             new_todo == TodoItem(next_id.next_id, todo.title, todo.description,
                                  todo.done)
         IN  IF next_id.raised \/ ~new_todo.ok
             THEN [local EXCEPT !.pc = "done", !.status = 500]
             ELSE [local EXCEPT !.pc = "open",
                                !.todos = Append(local.base, new_todo.item)] :
            next_id \in {get_next_id(file)}} : TRUE

\* The file after text was written from its start by a request that opened
\* it before: the text alone when it covers what the file held, else the
\* text followed by the end of what the file held.
Overwritten(file, todos) ==
    CHOOSE after \in
        {IF Len(text) >= Len(held) THEN JsonFile(todos)
         ELSE TextFile(<<todos>>, SubSeq(held, Len(text) + 1, Len(held))) :
            text \in {DumpBytes(todos)}, held \in {FileBytes(file)}} : TRUE

\* Whether json.dump and the close hand the text to the file in one write.
InOneWrite(todos) == JsonLength(todos) <= ChunkSize

\* write_data of the copy with the created item put after the items the file
\* holds at that time, for the checks below.
write_data_refreshed(file, local) ==
    IF local.op = "create"
    THEN Overwritten(file, Append(load_all(file).todos, local.todos[Len(local.todos)]))
    ELSE Overwritten(file, local.todos)

\* write_data(todos), after the open: json.dump and the close of the file,
\* for a text that reaches the file in one write.
write_data(file, local) ==
    CASE InOneWrite(local.todos) -> Overwritten(file, local.todos)

\* read_data() up to the first read(2): open(DATA_FILE, "r") and the size of
\* the file.
ReadData(p) ==
    /\ procs[p].pc = "start"
    /\ \E r \in ConcurrentRequests :
           procs' = [procs EXCEPT ![p].pc = "read_data", ![p].op = r.op,
                                  ![p].todo_id = r.todo_id, ![p].body = r.body,
                                  ![p].room = FirstRoom(store)]
    /\ UNCHANGED <<store, req, resp, loaded, saved, seen>>

\* get_next_id() up to the first read(2).
GetNextId(p) ==
    /\ procs[p].pc = "next_id"
    /\ procs' = [procs EXCEPT ![p].pc = "get_next_id", ![p].room = FirstRoom(store)]
    /\ UNCHANGED <<store, req, resp, loaded, saved, seen>>

\* One read(2) of f.read().  The read that gives no byte ends f.read(): the
\* text is decoded and loaded, and the handler goes on to its next access to
\* the file.
Read(p) ==
    /\ procs[p].pc \in {"read_data", "get_next_id"}
    /\ \E more \in {ReadBytes(store, procs[p])} :
           procs' = [procs EXCEPT ![p] =
               IF more # <<>>
               THEN [@ EXCEPT !.got = @ \o more, !.room = RoomNow(procs[p])]
               ELSE IF @.pc = "read_data" THEN AfterReadData(TextFile(<<>>, @.got), @)
               ELSE AfterGetNextId(TextFile(<<>>, @.got), @)]
    /\ UNCHANGED <<store, req, resp, loaded, saved, seen>>

\* with open(DATA_FILE, "w", encoding="utf-8") as f: the file is emptied.
OpenDataFile(p) ==
    /\ procs[p].pc = "open"
    /\ store' = EmptyFile
    /\ procs' = [procs EXCEPT ![p].pc = "dump"]
    /\ UNCHANGED <<req, resp, loaded, saved, seen>>

\* json.dump(data, f, indent=2, ensure_ascii=False), the close, the return.
\* The model stops at a text longer than ChunkSize: its writes are several
\* steps, at places the build of the interpreter chooses.
WriteData(p) ==
    /\ procs[p].pc = "dump"
    /\ InOneWrite(procs[p].todos)
    /\ store' = write_data(store, procs[p])
    /\ procs' = [procs EXCEPT ![p].pc = "done", ![p].status = 200]
    /\ seen' = seen \cup IdsIn(store')
    /\ UNCHANGED <<req, resp, loaded, saved>>

SecondRecord ==
    [id |-> 2, title |-> <<Chr.A>>, description |-> <<Chr.A>>, done |-> TRUE]

\* An item whose title holds characters of three bytes each.
WideRecord == [ValidRecord EXCEPT !.title = WideTitle]

\* Stores that requests served one at a time leave.
InitConcurrent ==
    /\ store \in {JsonFile(<<>>), JsonFile(<<ValidRecord>>),
                  JsonFile(<<ValidRecord, SecondRecord>>),
                  JsonFile(<<WideRecord, SecondRecord>>)}
    /\ Idle /\ Started

NextConcurrent ==
    \E p \in Procs :
        ReadData(p) \/ GetNextId(p) \/ Read(p) \/ OpenDataFile(p) \/ WriteData(p)

SpecConcurrent == InitConcurrent /\ [][NextConcurrent]_vars

----------------------------------------------------------------------------
(* The file as its bytes.                                                  *)

\* The file with nothing known of it but its bytes: json.load decodes them.
Reread(file) ==
    IF file.kind = "absent" THEN file ELSE TextFile(<<>>, FileBytes(file))

\* What json.load gives for the file is what the decoder makes of its bytes.
LoadsWhatItsBytesHold == json_load(store) = json_load(Reread(store))

----------------------------------------------------------------------------
(* Properties of the service run one request at a time from an empty store *)
(* (Spec).                                                                 *)

\* The ids of a sequence of records, and the position of an id in it.
IdsOf(records) == {records[i].id : i \in 1..Len(records)}
PositionOf(records, id) == CHOOSE i \in 1..Len(records) : records[i].id = id

\* The request carries credentials of the allow-list.
Accepted(r) ==
    /\ r.credentials.username \in DOMAIN USERS
    /\ USERS[r.credentials.username] = r.credentials.password

\* C1: after any sequence of requests served one at a time from an empty
\* store, every stored item has a positive id and no two stored items share
\* an id.
C1_IdsPositiveAndUnique ==
    /\ store.kind = "json"
    /\ \A i \in 1..Len(store.data) : store.data[i].id > 0
    /\ \A i, j \in 1..Len(store.data) : store.data[i].id = store.data[j].id => i = j

\* A create that succeeded on a collection that already held an item.
C1_Witness ==
    /\ req.op = "create" /\ resp.status = 200
    /\ Len(store.data) >= 2

\* C2: a valid create returns id 1 on an empty collection and otherwise the
\* greatest id of the collection before the create plus 1, an id greater than
\* every id in the collection; the new item is appended at the end and saved.
C2_CreateAssignsNextId ==
    [][(req'.op = "create" /\ resp'.status = 200) =>
            LET before == store.data
                new == resp'.body.item
            IN  /\ (before = <<>> => new.id = 1)
                /\ (before # <<>> =>
                        /\ new.id - 1 \in IdsOf(before)
                        /\ \A i \in 1..Len(before) : before[i].id < new.id)
                /\ saved' = "ok"
                /\ store' = JsonFile(Append(before, new))]_vars

\* A create answered with an id above 1.
C2_Witness ==
    /\ req.op = "create" /\ resp.status = 200
    /\ resp.body.item.id > 1
    /\ store.data[Len(store.data)] = resp.body.item

\* C3: an operation changes at most one record.  A successful update or
\* toggle replaces the record of that id in place and keeps its id; a
\* successful delete removes that record and keeps the others in order; a
\* successful create keeps every existing record; any other request leaves
\* the stored collection as it was.
C3_AtMostOneRecordChanges ==
    [][LET before == store.data
           after == store'.data
           op == req'.op
           ok == resp'.status = 200
       IN  /\ (ok /\ op \in {"update", "toggle"}) =>
                  LET p == PositionOf(before, req'.args.todo_id)
                  IN  /\ Len(after) = Len(before)
                      /\ after[p].id = before[p].id
                      /\ \A i \in 1..Len(before) : i # p => after[i] = before[i]
           /\ (ok /\ op = "delete") =>
                  LET p == PositionOf(before, req'.args.todo_id)
                  IN  /\ Len(after) = Len(before) - 1
                      /\ \A i \in 1..Len(after) :
                             after[i] = IF i < p THEN before[i] ELSE before[i + 1]
           /\ (ok /\ op = "create") =>
                  /\ Len(after) = Len(before) + 1
                  /\ \A i \in 1..Len(before) : after[i] = before[i]
           /\ ~(ok /\ op \in {"update", "toggle", "delete", "create"}) =>
                  store' = store]_vars

\* A delete that removed the first of two records.
C3_Witness ==
    /\ req.op = "delete" /\ resp.status = 200
    /\ req.args.todo_id = 1
    /\ Len(store.data) = 1

\* C4: get, update, delete and toggle of an id that is not in the stored
\* collection (the request being authenticated and its body valid) answer 404
\* and leave the store as it was, without saving.
C4_UnknownIdIsNotFound ==
    [][(/\ req'.op \in {"get", "update", "delete", "toggle"}
        /\ Accepted(req')
        /\ (req'.op = "update" => TodoCreate(req'.args.body).ok)
        /\ req'.args.todo_id \notin IdsOf(store.data)) =>
            /\ resp'.status = 404
            /\ resp'.detail = TASK_NOT_FOUND_MSG
            /\ store' = store
            /\ saved' = "none"]_vars

\* A delete of an unknown id on a collection that is not empty.
C4_Witness ==
    /\ req.op = "delete" /\ resp.status = 404
    /\ Len(store.data) > 0
    /\ saved = "none"

\* C8: the credential check passes iff the username is in the allow-list with
\* that user's password; every operation runs it first: a request that fails
\* it is answered 401 without the file being read or written, and the answer
\* for an unknown user is the answer for a known user with a wrong password.
C8_CredentialsCheckedFirst ==
    [][req' # NoRequest =>
            LET c == req'.credentials
                listed == \E u \in DOMAIN USERS : u = c.username /\ USERS[u] = c.password
            IN  /\ (resp'.status = 401) <=> ~listed
                /\ ~listed =>
                       /\ resp' = Response(401, "Credenciais invalidas", NoBody)
                       /\ store' = store
                       /\ loaded' = NotLoaded
                       /\ saved' = "none"]_vars

\* A known user with a wrong password is refused on a collection that holds items.
C8_Witness ==
    /\ resp.status = 401
    /\ req.credentials.username \in DOMAIN USERS
    /\ Len(store.data) > 0

----------------------------------------------------------------------------
(* Persistence under faults (SpecFault) and loading (SpecLoad).            *)

\* C5: every request either commits or has no effect: after a request that
\* reports success the file holds a complete collection, after one that
\* reports an error (a failed save included) the file is what it was before;
\* the file is never left truncated.
C5_CommitsOrLeavesTheStore ==
    [][req' # NoRequest =>
            /\ store'.kind = "json"
            /\ resp'.status = 200 => saved' \in {"none", "ok"}
            /\ resp'.status # 200 => store' = store]_vars

\* What the claim counts as a record that fails validation: a missing field
\* (done has a default and may be missing), an id that is not positive, a
\* title or description that is empty after trimming or too long.
FailsItemValidation(r) ==
    \/ ~({"id", "title", "description"} \subseteq DOMAIN r)
    \/ r.id <= 0
    \/ Len(Strip(r.title)) \notin 1..TitleMaxLength
    \/ Len(Strip(r.description)) \notin 1..DescriptionMaxLength

\* C6: load_all never raises, and returns the empty sequence when the file
\* is absent, does not parse, or holds a record that fails validation.
C6_LoadAllIsFailSafe ==
    [][loaded'.called =>
            /\ ~loaded'.raised
            /\ (\/ json_load(store).error # "none"
                \/ \E i \in 1..Len(store.data) : FailsItemValidation(store.data[i]))
                   => loaded'.todos = <<>>]_vars

----------------------------------------------------------------------------
(* Validation of bodies (SpecValidate).                                    *)

\* C7: create and update accept a body iff the trimmed title has 1 to 100
\* characters and the trimmed description 1 to 500; a body that is not
\* accepted is answered 422; the stored title and description are the
\* trimmed ones.
C7_TrimmedBeforeLengthChecks ==
    [][(/\ req'.op \in {"create", "update"}
        /\ (req'.op = "update" => req'.args.todo_id \in IdsOf(store.data))) =>
            LET title == Strip(req'.args.body.title)
                description == Strip(req'.args.body.description)
                valid == /\ Len(title) \in 1..TitleMaxLength
                         /\ Len(description) \in 1..DescriptionMaxLength
            IN  /\ valid <=> resp'.status = 200
                /\ ~valid => resp'.status = 422
                /\ resp'.status = 200 =>
                       \E i \in 1..Len(store'.data) :
                           /\ store'.data[i] = resp'.body.item
                           /\ store'.data[i].title = title
                           /\ store'.data[i].description = description]_vars

----------------------------------------------------------------------------
(* Listing (SpecList).                                                     *)

\* The query of the last request, and whether it asks for an ordering.
Query == req.args
Ordered == Query.order_by # <<>> /\ Query.order_by[1] \in ValidFields
Unordered == Query.order_by = <<>>
Descending == Query.order_direction = Str("desc")

\* The collection a listing pages through.
Listed ==
    IF Ordered
    THEN SortTodos(store.data, Query.order_by[1],
                   IF Descending THEN "desc" ELSE "asc")
    ELSE store.data

\* C9: for page >= 1 and size in 1..100, list answers with total = number of
\* items, total_pages = ceil(total / size) (0 when total is 0) and items = the
\* elements of the (possibly sorted) collection at positions
\* [(page-1)*size, (page-1)*size + size): never more than size of them, and
\* none, without an error, for a page beyond the last one.
C9_Pagination ==
    (/\ req.op = "list"
     /\ Query.page >= 1 /\ Query.size \in 1..SizeMax
     /\ (Ordered \/ Unordered)) =>
        LET body == resp.body
            total == Len(store.data)
            first == (Query.page - 1) * Query.size
            positions == {k \in 1..total : first < k /\ k <= first + Query.size}
        IN  /\ resp.status = 200
            /\ body.page = Query.page /\ body.size = Query.size
            /\ body.total = total
            /\ body.total_pages * Query.size >= total
            /\ (body.total_pages - 1) * Query.size < total
            /\ (total = 0 => body.total_pages = 0)
            /\ Len(body.items) = Cardinality(positions)
            /\ Len(body.items) <= Query.size
            /\ \A i \in 1..Len(body.items) : body.items[i] = Listed[first + i]
            /\ (Query.page > body.total_pages => body.items = <<>>)

\* The second page of a collection that fills more than one page, and a page
\* beyond the last one.
C9_Witness ==
    /\ req.op = "list" /\ resp.status = 200
    /\ Query.page = 2 /\ Query.size = 2
    /\ resp.body.total = 3 /\ resp.body.total_pages = 2
    /\ Len(resp.body.items) = 1

\* C10: with order_by one of id, title, description, done, the listing is a
\* permutation of the collection ordered by that key, descending exactly when
\* order_direction is "desc" and ascending otherwise; in both directions items
\* with equal keys keep their order in the collection; by done ascending every
\* false comes before every true.
C10_StableOrdering ==
    (/\ req.op = "list" /\ resp.status = 200
     /\ Ordered
     /\ Query.page = 1 /\ Query.size >= Len(store.data)) =>
        LET items == resp.body.items
            key == Query.order_by[1]
            n == Len(items)
        IN  /\ n = Len(store.data)
            /\ \A k \in 1..n : \E i \in 1..n : items[i] = store.data[k]
            /\ \A i, j \in 1..n : i < j =>
                   /\ ~Descending => ~KeyLess(items[j], items[i], key)
                   /\ Descending => ~KeyLess(items[i], items[j], key)
                   /\ (~KeyLess(items[i], items[j], key) /\ ~KeyLess(items[j], items[i], key))
                          => PositionOf(store.data, items[i].id)
                                 < PositionOf(store.data, items[j].id)
                   /\ (key = "done" /\ ~Descending) => ~(items[i].done /\ ~items[j].done)

\* A descending listing by title of three items, two of them with the same
\* title, stored in an order that is not the order of their ids.
C10_Witness ==
    /\ req.op = "list" /\ resp.status = 200
    /\ Query.order_by = Str("title") /\ Descending
    /\ Len(resp.body.items) = 3
    /\ resp.body.items[2].title = resp.body.items[3].title
    /\ resp.body.items[1].title # resp.body.items[2].title
    /\ store.data[1].id > store.data[2].id

\* C11: a listing asked with an order_by that is given and is not one of id,
\* title, description, done (the empty string included) is answered with
\* 400 and no page.
C11_UnknownOrderByIsRejected ==
    (/\ req.op = "list"
     /\ Query.page >= 1 /\ Query.size \in 1..SizeMax
     /\ Query.order_by # <<>> /\ Query.order_by[1] \notin ValidFields) =>
        /\ resp.status = 400
        /\ resp.body = NoBody

----------------------------------------------------------------------------
(* Filtering by status (Spec).                                             *)

\* The positions of the stored items whose done is this value.
PositionsWithDone(is_done) ==
    {i \in 1..Len(store.data) : store.data[i].done = is_done}

\* C12: a status other than "completed" and "pending" is answered with 400;
\* otherwise the answer holds exactly the stored items whose done equals
\* (status = "completed"), in their stored order, with count their number;
\* the pending and the completed items together are the whole collection.
C12_FilterByStatus ==
    (req.op = "status" /\ Accepted(req)) =>
        LET status == req.args.status
            is_done == (status = "completed")
            positions == PositionsWithDone(is_done)
        IN  /\ status \notin {"completed", "pending"} =>
                resp.status = 400 /\ resp.body = NoBody
            /\ status \in {"completed", "pending"} =>
                /\ resp.status = 200
                /\ resp.body.status = status
                /\ resp.body.count = Cardinality(positions)
                /\ Len(resp.body.todos) = resp.body.count
                /\ \A k \in 1..Len(resp.body.todos) :
                       \E i \in positions :
                           /\ Cardinality({j \in positions : j <= i}) = k
                           /\ resp.body.todos[k] = store.data[i]
                /\ resp.body.count + Len(get_todos_by_status(store,
                       IF is_done THEN "pending" ELSE "completed").resp.body.todos)
                       = Len(store.data)

\* The pending items of a collection whose first item is completed and whose
\* second is pending.
C12_Witness ==
    /\ req.op = "status" /\ resp.status = 200
    /\ req.args.status = "pending"
    /\ Len(store.data) = 2
    /\ store.data[1].done /\ ~store.data[2].done
    /\ resp.body.count = 1
    /\ resp.body.todos = <<store.data[2]>>

----------------------------------------------------------------------------
(* Ids over time (Spec).                                                   *)

\* The ids the collection held at some time and does not hold now.
Removed == seen \ IdsOf(store.data)

\* C13: once delete(id) has succeeded, get, update, toggle and delete of that
\* id are answered 404 until a create returns the id again: a successful
\* delete takes the id out of the collection, an id leaves the collection by
\* its delete only and comes back by a create that returns it only, and
\* while it is out every request for it is answered 404 and changes nothing.
\* From the empty store, create of title "A", description "B" returns id 1
\* with done false, and a toggle answers the negated done.  A get that
\* follows a get of the same id returns the same result.
C13_DeletedIdIsNotFoundUntilCreatedAgain ==
    [][LET op == req'.op
           ok == resp'.status = 200
       IN  /\ (op = "delete" /\ ok) => req'.args.todo_id \in Removed'
           /\ \A id \in IdsOf(store.data) \ IdsOf(store'.data) :
                  op = "delete" /\ ok /\ req'.args.todo_id = id
           /\ \A id \in Removed :
                  /\ id \in IdsOf(store'.data) =>
                         op = "create" /\ ok /\ resp'.body.item.id = id
                  /\ (/\ op \in {"get", "update", "toggle", "delete"}
                      /\ req'.args.todo_id = id
                      /\ Accepted(req')
                      /\ (op = "update" => TodoCreate(req'.args.body).ok)) =>
                         /\ resp'.status = 404
                         /\ resp'.body = NoBody
                         /\ store' = store
           /\ (/\ op = "create" /\ Accepted(req')
               /\ store.data = <<>> /\ req'.args.body = DefaultBody) =>
                  /\ ok
                  /\ resp'.body.item = [id |-> 1, title |-> <<Chr.A>>,
                                        description |-> <<Chr.B>>, done |-> FALSE]
           /\ (op = "toggle" /\ ok) =>
                  resp'.body.item.done
                      = ~store.data[PositionOf(store.data, req'.args.todo_id)].done
           /\ (/\ req.op = "get" /\ op = "get"
               /\ req.args = req'.args
               /\ Accepted(req) /\ Accepted(req')) =>
                  resp' = resp]_vars

\* A get answered 404 for an id that was deleted, in a collection that holds
\* another item.
C13_Witness ==
    /\ req.op = "get" /\ resp.status = 404
    /\ req.args.todo_id \in Removed
    /\ store.data # <<>>

\* C16: the id a create returns is greater than every id the collection has
\* held before it, the ids of the items deleted since included: no id is
\* given twice.
C16_IdsAreNeverReused ==
    [][(req'.op = "create" /\ resp'.status = 200) =>
            \A id \in seen : id < resp'.body.item.id]_vars

\* C17: a toggle of a stored id negates the done of that item and changes
\* nothing else, in that item or in the others; it answers the item as
\* stored; the collection it leaves differs from the one it found, and the
\* same toggle applied to the collection it leaves gives back the collection
\* it found.
C17_ToggleNegatesDone ==
    [][(req'.op = "toggle" /\ resp'.status = 200) =>
            LET id == req'.args.todo_id
                p == PositionOf(store.data, id)
            IN  /\ id \in IdsOf(store.data)
                /\ store' = JsonFile([store.data EXCEPT ![p].done = ~store.data[p].done])
                /\ resp'.body.item = store'.data[p]
                /\ store' # store
                /\ toggle_todo_status(store', id, Ok).file = store
                /\ (req.op = "toggle" /\ resp.status = 200 /\ req.args.todo_id = id) =>
                       /\ resp'.body.item = [resp.body.item EXCEPT !.done = ~@]
                       /\ resp'.body.item # resp.body.item]_vars

\* A toggle that set done back to false, in a collection that holds another
\* item.
C17_Witness ==
    /\ req.op = "toggle" /\ resp.status = 200
    /\ req.args.todo_id = 2
    /\ ~resp.body.item.done
    /\ Len(store.data) = 2
    /\ store.data[2] = resp.body.item
    /\ store.data[1].done

\* C18: a create or an update whose body has no done, once it succeeds,
\* answers an item with done false and stores it so: the created item is
\* stored last with done false, and the updated item has done false whatever
\* its done was before the update.
C18_DoneDefaultsToFalse ==
    [][(/\ req'.op \in {"create", "update"}
        /\ resp'.status = 200
        /\ req'.args.body.done = "omitted") =>
            /\ ~resp'.body.item.done
            /\ req'.op = "create" =>
                   /\ Len(store'.data) = Len(store.data) + 1
                   /\ store'.data[Len(store'.data)] = resp'.body.item
            /\ req'.op = "update" =>
                   LET p == PositionOf(store.data, req'.args.todo_id)
                   IN  /\ store'.data[p] = resp'.body.item
                       /\ store.data[p].done => ~store'.data[p].done]_vars

\* An update without done that was answered with done false, for the second
\* of two stored items.
C18_Witness ==
    /\ req.op = "update" /\ resp.status = 200
    /\ req.args.body.done = "omitted"
    /\ req.args.todo_id = 2
    /\ Len(store.data) = 2
    /\ store.data[2] = resp.body.item
    /\ ~store.data[2].done
    /\ store.data[1].done

\* C20: after requests served one at a time from the empty store, each
\* stored item has an id greater than the id of the item before it, and a
\* listing without order_by answers the items of its page in that order: all
\* of them, as stored, when the page holds the whole collection.
C20_StoredInIncreasingIdOrder ==
    /\ \A i, j \in 1..Len(store.data) : i < j => store.data[i].id < store.data[j].id
    /\ (req.op = "list" /\ resp.status = 200 /\ req.args.order_by = <<>>) =>
           LET items == resp.body.items
           IN  /\ \A i, j \in 1..Len(items) : i < j => items[i].id < items[j].id
               /\ (req.args.page = 1 /\ req.args.size >= Len(store.data)) =>
                      items = store.data

\* A listing without order_by of two stored items.
C20_Witness ==
    /\ req.op = "list" /\ resp.status = 200
    /\ req.args.order_by = <<>>
    /\ Len(resp.body.items) = 2
    /\ resp.body.items = store.data
    /\ resp.body.items[1].id = 1 /\ resp.body.items[2].id = 2

----------------------------------------------------------------------------
(* Concurrent requests (SpecConcurrent).                                   *)

\* The request of this worker was answered 200.
Succeeded(p) == procs[p].pc = "done" /\ procs[p].status = 200

\* C14: two requests whose reads and writes interleave can both be answered
\* 200 while the file keeps the effect of one of them only: whenever two
\* requests have both succeeded, the file holds exactly the copy of one of
\* them, made of what that request read and of its own change, or that copy
\* followed by the end of the other one, which does not load, when the
\* shorter text was written over the longer one; it never holds
\* both changes unless one request read the other's.  When both were creates
\* working on the same content the file holds one new item, not two.
C14_LastWriterWins ==
    \A p, q \in Procs :
        (p # q /\ Succeeded(p) /\ Succeeded(q)) =>
            /\ \/ store \in {JsonFile(procs[p].todos), JsonFile(procs[q].todos)}
               \/ /\ store.kind = "text"
                  /\ store.head \in {<<procs[p].todos>>, <<procs[q].todos>>}
                  /\ json_load(store).error \in {"JSONDecodeError", "UnicodeDecodeError"}
            /\ (/\ procs[p].op = "create" /\ procs[q].op = "create"
                /\ procs[p].base = procs[q].base
                /\ store.kind = "json") =>
                   Len(store.data) = Len(procs[p].base) + 1

\* An update of item 1 and a delete of item 2 that both read the two stored
\* items and were both answered 200: the file holds the copy of the delete,
\* where item 1 is as it was before the update.
C14_Witness ==
    \E p, q \in Procs :
        /\ Succeeded(p) /\ Succeeded(q)
        /\ procs[p].op = "update" /\ procs[p].todo_id = 1
        /\ procs[q].op = "delete" /\ procs[q].todo_id = 2
        /\ procs[p].base = <<ValidRecord, SecondRecord>>
        /\ procs[q].base = procs[p].base
        /\ procs[p].todos[1].title = <<Chr.B>>
        /\ store.data = <<ValidRecord>>

\* C19: however the reads and the writes of concurrent create, update,
\* delete and toggle requests interleave, no two stored items have the same
\* id.
C19_ConcurrentIdsUnique ==
    \A i, j \in 1..Len(store.data) : store.data[i].id = store.data[j].id => i = j

----------------------------------------------------------------------------
(* The round trip through the file (SpecRoundTrip).                        *)

\* The file the round trip started from.
Original == req.args.file

\* A dict is an item as save_all writes it: the four fields and no other, a
\* positive int as id, a str without surrounding whitespace and within the
\* length limit as title and as description, a bool as done.
IsItem(v) ==
    /\ v.type = "dict"
    /\ Len(v.value) = 4
    /\ \A key \in {IdKey, TitleKey, DescriptionKey, DoneKey} : HasMember(v, key)
    /\ Member(v, IdKey).type = "int"
    /\ Member(v, IdKey).value > 0
    /\ Member(v, TitleKey).type = "str"
    /\ Member(v, TitleKey).value = Strip(Member(v, TitleKey).value)
    /\ Len(Member(v, TitleKey).value) \in 1..TitleMaxLength
    /\ Member(v, DescriptionKey).type = "str"
    /\ Member(v, DescriptionKey).value = Strip(Member(v, DescriptionKey).value)
    /\ Len(Member(v, DescriptionKey).value) \in 1..DescriptionMaxLength
    /\ Member(v, DoneKey).type = "bool"

\* The field values of such a dict.
ItemOf(v) ==
    [id |-> Member(v, IdKey).value, title |-> Member(v, TitleKey).value,
     description |-> Member(v, DescriptionKey).value, done |-> Member(v, DoneKey).value]

\* The bytes of the file are a JSON array of items.
HoldsValidItems(file) ==
    \E text \in {json_load(Reread(file))} :
        /\ text.error = "none"
        /\ text.data.type = "list"
        /\ \A i \in 1..Len(text.data.value) : IsItem(text.data.value[i])

\* The items the bytes of such a file hold, in the order of the array.
ItemsIn(file) ==
    CHOOSE items \in
        {[i \in 1..Len(text.data.value) |-> ItemOf(text.data.value[i])] :
            text \in {json_load(Reread(file))}} : TRUE

\* C15: saving what load_all returned leaves the items of the store as they
\* were.  For every file load_all accepts, what load_all returns from the
\* bytes save_all wrote is what it returned before.  For every file whose
\* bytes are a JSON array of valid items, the bytes save_all wrote are an
\* array of the same items with the same field values in the same order;
\* and when the file held the text json.dump writes for its items, it holds
\* the same bytes afterwards.
C15_RoundTripKeepsTheItems ==
    req.op = "save_loaded" =>
        /\ load_all(Reread(store)) = [raised |-> FALSE, todos |-> loaded.todos]
        /\ HoldsValidItems(Original) =>
               /\ HoldsValidItems(store)
               /\ ItemsIn(store) = ItemsIn(Original)
               /\ FileBytes(Original) = DumpBytes(ItemsIn(Original)) =>
                      FileBytes(store) = FileBytes(Original)

\* A round trip of the text json.dump writes for two items in decreasing
\* order of id, with different done values and a title written with escapes
\* and with characters of several bytes: the file holds the same bytes.
C15_Witness ==
    /\ req.op = "save_loaded" /\ saved = "ok"
    /\ FileBytes(Original) = WrittenText
    /\ HoldsValidItems(Original)
    /\ Len(ItemsIn(Original)) = 2
    /\ ItemsIn(Original)[1].id > ItemsIn(Original)[2].id
    /\ ItemsIn(Original)[1].title = TrickyTitle
    /\ ItemsIn(Original)[1].done /\ ~ItemsIn(Original)[2].done
    /\ ItemsIn(store) = ItemsIn(Original)
    /\ FileBytes(store) = WrittenText

====
